---- MODULE Spec2Model ----
(***************************************************************************)
(* terraform-provider-valsoperator: the upsert engine of internal/provider *)
(* (utils.go), the resource handlers built on it, and the object store     *)
(* they talk to, as a state machine.                                       *)
(*                                                                         *)
(* A worker is one Terraform resource instance (one resource block with    *)
(* its own state).  The surrounding tool invokes its handlers; the upsert  *)
(* (CreateValsSecret / CreateDbSecret) is two store calls, a get and a     *)
(* write, and other workers and other clients of the store may act between *)
(* them.                                                                   *)
(***************************************************************************)
EXTENDS Integers, Sequences, FiniteSets, TLC

VARIABLES
    store,      \* the object store: (kind, namespace, name) -> document or NoObject
    nextRV,     \* the store's revision counter: the next version token it assigns
    kind,       \* worker -> the resource type of its resource block
    tfstate,    \* worker -> the Terraform state of the resource (NoState or a model)
    pc,         \* worker -> "idle" | "start" | "got"
    handler,    \* worker -> the handler in flight or last run
    plan,       \* worker -> the plan / state / config handed to the handler
    pending,    \* worker -> the plan of the Create that follows a replacing Delete
    obj,        \* worker -> the document the upsert built (local variable obj)
    secret,     \* worker -> the decoded object (local variable secret / dbsecret / s)
    err,        \* worker -> the error the last helper call returned ("" is nil)
    diag,       \* worker -> whether the handler recorded an error diagnostic
    calls,      \* worker -> the store calls of the invocation, in order (history)
    invocations,\* the operations of the tool so far (bounds the run)
    foreign,    \* the writes of other clients so far (bounds the run)
    was,        \* worker -> the state of the resource when the tool began its operation (history)
    applied,    \* slot -> the last successful upsert of the slot, while nothing else touched it (history)
    prior,      \* worker -> the applied record its invocation found and wrote over (history)
    codec,      \* the codec on its own: a plan, the document built from it, its decoding
    input,      \* the provider block and the environment of the provider process
    ppc,        \* the provider: "off" | "input" | "configured" | "failed"
    resolved,   \* what initializeConfiguration computed and returned (history)
    presp,      \* the response of provider Configure: diagnostics, ResourceData, DataSourceData
    bag,        \* the kubeClientsets struct that ResourceData and DataSourceData point to
    handles,    \* the dynamic client handles constructed so far
    clients,    \* component -> the dynamic client handle its Configure stored (0 is nil)
    secrets,    \* the core Secret objects of the cluster: (namespace, name) -> Secret or NoObject
    lookup      \* the secret data source: its config, its store calls, its result

\* The variables of the provider configuration.
provVars == <<input, ppc, resolved, presp, bag, handles, clients>>

vars == <<store, nextRV, kind, tfstate, pc, handler, plan, pending, obj, secret,
          err, diag, calls, was, invocations, foreign, applied, prior, codec,
          input, ppc, resolved, presp, bag, handles, clients, secrets, lookup>>

\* The variables of the reconciler and the store.
reconcilerVars == <<store, nextRV, kind, tfstate, pc, handler, plan, pending, obj, secret,
                    err, diag, calls, was, invocations, foreign, applied, prior>>

\* The variables outside the reconciler.
\* The variables of the secret data source.
lookupVars == <<secrets, lookup>>

aux == <<codec, provVars, lookupVars>>

(***************************************************************************)
(* Bounds                                                                  *)
(***************************************************************************)
\* The store stops accepting writes once its revision counter reaches MaxRV.
MaxRV == 4
\* The tool runs at most MaxInvocations operations (apply, destroy, refresh)
\* in a run.
MaxInvocations == 2
\* Other clients write to the store at most MaxForeign times in a run.
MaxForeign == 1
\* The lists of a plan given to the codec on its own hold at most MaxLen entries.
MaxLen == 2
\* A provider block and its environment set at most MaxSet inputs.
MaxSet == 3

Workers == {"w1", "w2"}
Kinds == {"ValsSecret", "DbSecret"}
\* The identities the plans range over: the first one, a change of its name
\* and a change of its namespace.
Identities == {<<"default", "example">>, <<"default", "other">>, <<"prod", "example">>}
Slots == {<<k, id[1], id[2]>> : k \in Kinds, id \in Identities}

\* Variant: the namespace of the plan is not used to address the store.
Slot_IgnoresNamespace(k, ns, n) == <<k, "default", n>>

\* client.Resource(gvr).Namespace(ns) ... (ctx, name, ...)
Slot(k, ns, n) == <<k, ns, n>>

(***************************************************************************)
(* Values                                                                  *)
(***************************************************************************)
Nil == [nil |-> TRUE]                \* a nil pointer
NoObject == [absent |-> TRUE]        \* no object under the slot
NoState == [nostate |-> TRUE]        \* the resource is not in the Terraform state
NoPlan == [noplan |-> TRUE]
NoRV == 0                            \* the empty resourceVersion ""
EmptyMap == [k \in {} |-> ""]

\* A JSON value of an unstructured document, with its dynamic type.
JInt(n) == [t |-> "int", i |-> n, s |-> ""]
JStr(x) == [t |-> "string", i |-> 0, s |-> x]

(***************************************************************************)
(* Desired state: the plans Terraform hands to the handlers                *)
(***************************************************************************)
RefUser == [Name |-> "username", Ref |-> "ref+vault://secret/myapp/username", Encoding |-> "text"]
RefPass == [Name |-> "password", Ref |-> "ref+vault://secret/myapp/password", Encoding |-> ""]
TplConf == [Name |-> "config.yaml", Value |-> "username: {{.username}}"]
TplUser == [Name |-> "CASSANDRA_USERNAME", Value |-> "{{ .username }}"]
TplPass == [Name |-> "CASSANDRA_PASSWORD", Value |-> "{{ .password }}"]
RollApp == [Kind |-> "Deployment", Name |-> "my-app"]
RollDb  == [Kind |-> "StatefulSet", Name |-> "my-db"]

\* ValsSecretResourceModel; the schema defaults ttl to 3600 and type to "Opaque".
ValsSecretPlans ==
    {[Name |-> id[2], Namespace |-> id[1], SecretRef |-> c.refs, Template |-> c.tpl,
      Type |-> c.type, Ttl |-> c.ttl] :
        id \in Identities,
        c \in {[refs |-> <<RefUser>>, tpl |-> <<>>, type |-> "Opaque", ttl |-> 3600],
               [refs |-> <<RefUser, RefPass>>, tpl |-> <<TplConf>>,
                type |-> "kubernetes.io/tls", ttl |-> 60]}}

\* DbSecretResourceModel
DbSecretPlans ==
    {[Name |-> id[2], Namespace |-> id[1], VaultRole |-> c.role, VaultMount |-> c.mount,
      Template |-> c.tpl, Renew |-> TRUE, Rollout |-> c.roll] :
        id \in Identities,
        c \in {[role |-> "role", mount |-> "cass000", tpl |-> <<TplUser>>, roll |-> <<RollApp>>],
               [role |-> "admin", mount |-> "pg001", tpl |-> <<TplUser, TplPass>>,
                roll |-> <<RollApp, RollDb>>]}}

Plans(k) == IF k = "ValsSecret" THEN ValsSecretPlans ELSE DbSecretPlans

(***************************************************************************)
(* ModelCodec: the document an upsert builds, and the decoding of a        *)
(* document into the typed object                                          *)
(***************************************************************************)
\* Variant: the entry of a reference is built without its encoding.
RECURSIVE RefsMap_NoEncoding(_)
RefsMap_NoEncoding(list) ==
    IF list = <<>> THEN EmptyMap
    ELSE LET r == list[Len(list)]
             m == RefsMap_NoEncoding(SubSeq(list, 1, Len(list) - 1))
         IN  [k \in DOMAIN m \cup {r.Name} |-> IF k = r.Name THEN [ref |-> r.Ref] ELSE m[k]]

\* refs[r.Name] = {"ref": r.Ref, "encoding": r.Encoding} for r in order.
RECURSIVE RefsMap(_)
RefsMap(list) ==
    IF list = <<>> THEN EmptyMap
    ELSE LET r == list[Len(list)]
             m == RefsMap(SubSeq(list, 1, Len(list) - 1))
         IN  [k \in DOMAIN m \cup {r.Name} |->
                 IF k = r.Name THEN [ref |-> r.Ref, encoding |-> r.Encoding] ELSE m[k]]

\* Variant: an entry whose name is already a key is skipped.
RECURSIVE TemplatesMap_FirstWins(_)
TemplatesMap_FirstWins(list) ==
    IF list = <<>> THEN EmptyMap
    ELSE LET r == list[Len(list)]
             m == TemplatesMap_FirstWins(SubSeq(list, 1, Len(list) - 1))
         IN  [k \in DOMAIN m \cup {r.Name} |-> IF k \in DOMAIN m THEN m[k] ELSE r.Value]

\* templates[r.Name] = r.Value for r in order.
RECURSIVE TemplatesMap(_)
TemplatesMap(list) ==
    IF list = <<>> THEN EmptyMap
    ELSE LET r == list[Len(list)]
             m == TemplatesMap(SubSeq(list, 1, Len(list) - 1))
         IN  [k \in DOMAIN m \cup {r.Name} |-> IF k = r.Name THEN r.Value ELSE m[k]]

\* rollouts = append(rollouts, {"name": r.Name, "kind": r.Kind}) for r in order.
RolloutList(list) == [i \in 1..Len(list) |-> [name |-> list[i].Name, kind |-> list[i].Kind]]

\* The document CreateValsSecret builds from the plan (no version token).
BuildValsSecretObj(p) ==
    [apiVersion |-> "digitalis.io/v1",
     kind       |-> "ValsSecret",
     metadata   |-> [name |-> p.Name, namespace |-> p.Namespace, resourceVersion |-> NoRV],
     spec       |-> [name     |-> p.Name,
                     ttl      |-> JInt(p.Ttl),
                     type     |-> p.Type,
                     data     |-> RefsMap(p.SecretRef),
                     template |-> TemplatesMap(p.Template)]]

\* Variant: the document is stamped as the other kind, and the vault fields
\* are swapped.
BuildDbSecretObj_WrongStamp(p) ==
    [apiVersion |-> "digitalis.io/v1",
     kind       |-> "ValsSecret",
     metadata   |-> [name |-> p.Name, namespace |-> p.Namespace, resourceVersion |-> NoRV],
     spec       |-> [vault    |-> [role |-> p.VaultMount, mount |-> p.VaultRole],
                     template |-> TemplatesMap(p.Template),
                     rollout  |-> RolloutList(p.Rollout)]]

\* The document CreateDbSecret builds from the plan (no version token).
BuildDbSecretObj(p) ==
    [apiVersion |-> "digitalis.io/v1beta1",
     kind       |-> "DbSecret",
     metadata   |-> [name |-> p.Name, namespace |-> p.Namespace, resourceVersion |-> NoRV],
     spec       |-> [vault    |-> [role |-> p.VaultRole, mount |-> p.VaultMount],
                     template |-> TemplatesMap(p.Template),
                     rollout  |-> RolloutList(p.Rollout)]]

BuildObj(k, p) == IF k = "ValsSecret" THEN BuildValsSecretObj(p) ELSE BuildDbSecretObj(p)

\* obj.SetResourceVersion(rv)
SetResourceVersion(doc, rv) ==
    [doc EXCEPT !.metadata = [doc.metadata EXCEPT !.resourceVersion = rv]]

\* metav1.TypeMeta and metav1.ObjectMeta of a decoded object.
DecodeMeta(doc) ==
    [APIVersion      |-> doc.apiVersion,
     Kind            |-> doc.kind,
     Name            |-> doc.metadata.name,
     Namespace       |-> doc.metadata.namespace,
     ResourceVersion |-> doc.metadata.resourceVersion]

\* DataSource: Ref, and Encoding with omitempty.
DecodeDataSource(e) ==
    [Ref      |-> IF "ref" \in DOMAIN e THEN e.ref ELSE "",
     Encoding |-> IF "encoding" \in DOMAIN e THEN e.encoding ELSE ""]

\* The zero ValsSecretSpec.
ZeroValsSecretSpec == [Name |-> "", Data |-> EmptyMap, TTL |-> 0, Type |-> "", Template |-> EmptyMap]

\* ValsSecretSpec filled from the document's spec: a key that is absent leaves
\* the field at its zero value.
DecodeValsSecretSpec(sp) ==
    [Name     |-> IF "name" \in DOMAIN sp THEN sp.name ELSE "",
     Data     |-> IF "data" \in DOMAIN sp
                  THEN [k \in DOMAIN sp.data |-> DecodeDataSource(sp.data[k])]
                  ELSE EmptyMap,
     TTL      |-> IF "ttl" \in DOMAIN sp THEN sp.ttl.i ELSE 0,
     Type     |-> IF "type" \in DOMAIN sp THEN sp.type ELSE "",
     Template |-> IF "template" \in DOMAIN sp THEN sp.template ELSE EmptyMap]

\* runtime.DefaultUnstructuredConverter.FromUnstructured(doc, &secret) for a
\* *ValsSecret: a fresh struct is allocated and its fields filled in declaration
\* order; a ttl that is no number stops the decoding with an error, and the
\* fields before it (metadata, Spec.Name, Spec.Data) stay filled.
DecodeValsSecret(doc) ==
    LET sp   == doc.spec
        full == DecodeValsSecretSpec(sp)
        bad  == "ttl" \in DOMAIN sp /\ sp.ttl.t # "int"
    IN  IF bad
        THEN [secret |-> [Meta |-> DecodeMeta(doc),
                          Spec |-> [ZeroValsSecretSpec EXCEPT !.Name = full.Name,
                                                              !.Data = full.Data]],
              err |-> "DecodeError"]
        ELSE [secret |-> [Meta |-> DecodeMeta(doc), Spec |-> full], err |-> ""]

\* FromUnstructured for a *DbSecret.  The DbSecret type is declared outside the
\* sources at hand; its layout follows the document shape of the specification.
DecodeDbSecret(doc) ==
    LET sp == doc.spec
    IN  [secret |->
            [Meta |-> DecodeMeta(doc),
             Spec |-> [Vault    |-> IF "vault" \in DOMAIN sp
                                    THEN [Role |-> sp.vault.role, Mount |-> sp.vault.mount]
                                    ELSE [Role |-> "", Mount |-> ""],
                       Template |-> IF "template" \in DOMAIN sp THEN sp.template ELSE EmptyMap,
                       Rollout  |-> IF "rollout" \in DOMAIN sp THEN sp.rollout ELSE <<>>]],
         err |-> ""]

\* secret.GetName(), secret.GetResourceVersion()
GetName(s) == s.Meta.Name
GetResourceVersion(s) == s.Meta.ResourceVersion

(***************************************************************************)
(* DynamicObjectClient: the store calls                                    *)
(***************************************************************************)
\* How a call can fail in transport: not at all, before the store saw the
\* request, or after the store served it (the response is lost).
FailModes == {"none", "lost_request", "lost_response"}

CurrentRV(st, slot) == IF st[slot] = NoObject THEN NoRV ELSE st[slot].metadata.resourceVersion

\* client.Resource(gvr).Namespace(ns).Get(ctx, name, ...)
StoreGet(st, slot, fail) ==
    IF fail # "none" THEN [res |-> "TransportError", out |-> NoObject]
    ELSE IF st[slot] = NoObject THEN [res |-> "NotFound", out |-> NoObject]
    ELSE [res |-> "ok", out |-> st[slot]]

\* client.Resource(gvr).Namespace(ns).Create(ctx, obj, ...): refused when the
\* object exists; a new object gets the next version token.
StoreCreate(st, rv, slot, doc, fail) ==
    LET stored == SetResourceVersion(doc, rv)
        res == IF st[slot] # NoObject THEN "AlreadyExists"
               ELSE IF doc.metadata.resourceVersion # NoRV THEN "Invalid"
               ELSE "ok"
        served == fail # "lost_request" /\ res = "ok"
    IN  [res   |-> IF fail # "none" THEN "TransportError" ELSE res,
         out   |-> IF fail = "none" /\ res = "ok" THEN stored ELSE NoObject,
         store |-> IF served THEN [st EXCEPT ![slot] = stored] ELSE st,
         rv    |-> IF served THEN rv + 1 ELSE rv]

\* Variant: the document is merged into the stored one, key by key of spec.
StoreUpdate_Merge(st, rv, slot, doc, fail) ==
    LET old    == IF st[slot] = NoObject THEN doc ELSE st[slot]
        merged == [k \in DOMAIN old.spec \cup DOMAIN doc.spec |->
                      IF k \in DOMAIN doc.spec THEN doc.spec[k] ELSE old.spec[k]]
        stored == SetResourceVersion([doc EXCEPT !.spec = merged], rv)
        res == IF st[slot] = NoObject THEN "NotFound"
               ELSE IF doc.metadata.resourceVersion = NoRV THEN "Invalid"
               ELSE IF doc.metadata.resourceVersion # CurrentRV(st, slot) THEN "Conflict"
               ELSE "ok"
        served == fail # "lost_request" /\ res = "ok"
    IN  [res   |-> IF fail # "none" THEN "TransportError" ELSE res,
         out   |-> IF fail = "none" /\ res = "ok" THEN stored ELSE NoObject,
         store |-> IF served THEN [st EXCEPT ![slot] = stored] ELSE st,
         rv    |-> IF served THEN rv + 1 ELSE rv]

\* client.Resource(gvr).Namespace(ns).Update(ctx, obj, ...): the document's
\* version token must be the stored one; the stored object gets a new token.
StoreUpdate(st, rv, slot, doc, fail) ==
    LET stored == SetResourceVersion(doc, rv)
        res == IF st[slot] = NoObject THEN "NotFound"
               ELSE IF doc.metadata.resourceVersion = NoRV THEN "Invalid"
               ELSE IF doc.metadata.resourceVersion # CurrentRV(st, slot) THEN "Conflict"
               ELSE "ok"
        served == fail # "lost_request" /\ res = "ok"
    IN  [res   |-> IF fail # "none" THEN "TransportError" ELSE res,
         out   |-> IF fail = "none" /\ res = "ok" THEN stored ELSE NoObject,
         store |-> IF served THEN [st EXCEPT ![slot] = stored] ELSE st,
         rv    |-> IF served THEN rv + 1 ELSE rv]

\* client.Resource(gvr).Namespace(ns).Delete(ctx, name, ...)
StoreDelete(st, rv, slot, fail) ==
    LET res == IF st[slot] = NoObject THEN "NotFound" ELSE "ok"
        served == fail # "lost_request" /\ res = "ok"
    IN  [res   |-> IF fail # "none" THEN "TransportError" ELSE res,
         store |-> IF served THEN [st EXCEPT ![slot] = NoObject] ELSE st,
         rv    |-> IF served THEN rv + 1 ELSE rv]

\* One entry of the call history of an invocation: the operation, the slot it
\* addressed, the version token the document it sent carried, the result, the
\* slot's token before the call and after it, the document the store
\* returned (NoObject when it returned none), and the store's revision counter
\* when the call returned.
Call(op, slot, sent, res, before, after, out, clock) ==
    [op |-> op, slot |-> slot, sent |-> sent, res |-> res,
     before |-> before, after |-> after, out |-> out, clock |-> clock]

OutRV(o) == IF o = NoObject THEN NoRV ELSE o.metadata.resourceVersion

(***************************************************************************)
(* utils.go: the helpers over the store                                    *)
(***************************************************************************)
\* GetValsSecret: the get, then the decoding of what it returned.
GetValsSecret(st, ns, n, fail) ==
    LET r == StoreGet(st, Slot("ValsSecret", ns, n), fail)
    IN  IF r.res # "ok" THEN [secret |-> Nil, err |-> r.res] ELSE DecodeValsSecret(r.out)

\* GetDbSecret
GetDbSecret(st, ns, n, fail) ==
    LET r == StoreGet(st, Slot("DbSecret", ns, n), fail)
    IN  IF r.res # "ok" THEN [secret |-> Nil, err |-> r.res] ELSE DecodeDbSecret(r.out)

GetObject(k, st, ns, n, fail) ==
    IF k = "ValsSecret" THEN GetValsSecret(st, ns, n, fail) ELSE GetDbSecret(st, ns, n, fail)

DecodeObject(k, doc) == IF k = "ValsSecret" THEN DecodeValsSecret(doc) ELSE DecodeDbSecret(doc)

\* Variant: the error of the get is not checked.
GetAbortsUpsert_Unchecked(e) == FALSE

\* if err != nil && !errors.IsNotFound(err) { return secret, err }
GetAbortsUpsert(e) == e # "" /\ e # "NotFound"

\* The history entry of one write.
WriteCall(op, slot, doc, st, r) ==
    Call(op, slot, doc.metadata.resourceVersion, r.res, CurrentRV(st, slot),
         CurrentRV(r.store, slot), r.out, r.rv)

\* Variant: the create branch calls Update.
UpsertCall_UpdateOnly(s, built, st, rv, slot, fail) ==
    LET d == IF s = Nil \/ GetName(s) = "" THEN built
             ELSE SetResourceVersion(built, GetResourceVersion(s))
        r == StoreUpdate(st, rv, slot, d, fail)
    IN  [doc |-> d, res |-> r.res, out |-> r.out, store |-> r.store, rv |-> r.rv,
         trace |-> <<WriteCall("update", slot, d, st, r)>>]

\* Variant: the update branch calls Create.
UpsertCall_CreateOnly(s, built, st, rv, slot, fail) ==
    LET r == StoreCreate(st, rv, slot, built, fail)
    IN  [doc |-> built, res |-> r.res, out |-> r.out, store |-> r.store, rv |-> r.rv,
         trace |-> <<WriteCall("create", slot, built, st, r)>>]

\* Variant: the update branch does not copy the version token.
UpsertCall_NoToken(s, built, st, rv, slot, fail) ==
    LET op == IF s = Nil \/ GetName(s) = "" THEN "create" ELSE "update"
        r  == IF op = "create" THEN StoreCreate(st, rv, slot, built, fail)
              ELSE StoreUpdate(st, rv, slot, built, fail)
    IN  [doc |-> built, res |-> r.res, out |-> r.out, store |-> r.store, rv |-> r.rv,
         trace |-> <<WriteCall(op, slot, built, st, r)>>]

\* Variant: an update that meets Conflict is repeated with the current token.
UpsertCall_RetryConflict(s, built, st, rv, slot, fail) ==
    IF s = Nil \/ GetName(s) = ""
    THEN UpsertCall_CreateOnly(s, built, st, rv, slot, fail)
    ELSE LET d1 == SetResourceVersion(built, GetResourceVersion(s))
             r1 == StoreUpdate(st, rv, slot, d1, fail)
             d2 == SetResourceVersion(built, CurrentRV(st, slot))
             r2 == StoreUpdate(st, rv, slot, d2, fail)
         IN  IF r1.res = "Conflict"
             THEN [doc |-> d2, res |-> r2.res, out |-> r2.out, store |-> r2.store, rv |-> r2.rv,
                   trace |-> <<WriteCall("update", slot, d1, st, r1),
                               WriteCall("update", slot, d2, st, r2)>>]
             ELSE [doc |-> d1, res |-> r1.res, out |-> r1.out, store |-> r1.store, rv |-> r1.rv,
                   trace |-> <<WriteCall("update", slot, d1, st, r1)>>]

\* Variant: a create that meets AlreadyExists falls back to update.
UpsertCall_UpdateOnExists(s, built, st, rv, slot, fail) ==
    IF s = Nil \/ GetName(s) = ""
    THEN LET r1 == StoreCreate(st, rv, slot, built, fail)
             d2 == SetResourceVersion(built, CurrentRV(st, slot))
             r2 == StoreUpdate(st, rv, slot, d2, fail)
         IN  IF r1.res = "AlreadyExists"
             THEN [doc |-> d2, res |-> r2.res, out |-> r2.out, store |-> r2.store, rv |-> r2.rv,
                   trace |-> <<WriteCall("create", slot, built, st, r1),
                               WriteCall("update", slot, d2, st, r2)>>]
             ELSE [doc |-> built, res |-> r1.res, out |-> r1.out, store |-> r1.store,
                   rv |-> r1.rv, trace |-> <<WriteCall("create", slot, built, st, r1)>>]
    ELSE UpsertCall_UpdateOnly(s, built, st, rv, slot, fail)

\* Variant: a create that succeeded is followed by an update of the created
\* object.
UpsertCall_CreateThenUpdate(s, built, st, rv, slot, fail) ==
    IF s = Nil \/ GetName(s) = ""
    THEN LET r1 == StoreCreate(st, rv, slot, built, fail)
             d2 == SetResourceVersion(built, CurrentRV(r1.store, slot))
             r2 == StoreUpdate(r1.store, r1.rv, slot, d2, fail)
         IN  IF r1.res = "ok"
             THEN [doc |-> d2, res |-> r2.res, out |-> r2.out, store |-> r2.store, rv |-> r2.rv,
                   trace |-> <<WriteCall("create", slot, built, st, r1),
                               WriteCall("update", slot, d2, r1.store, r2)>>]
             ELSE [doc |-> built, res |-> r1.res, out |-> r1.out, store |-> r1.store,
                   rv |-> r1.rv, trace |-> <<WriteCall("create", slot, built, st, r1)>>]
    ELSE UpsertCall_UpdateOnly(s, built, st, rv, slot, fail)

\* Variant: an error of the write is returned under another classification.
UpsertCall_WrapsError(s, built, st, rv, slot, fail) ==
    LET d  == IF s = Nil \/ GetName(s) = "" THEN built
              ELSE SetResourceVersion(built, GetResourceVersion(s))
        op == IF s = Nil \/ GetName(s) = "" THEN "create" ELSE "update"
        r  == IF op = "create" THEN StoreCreate(st, rv, slot, d, fail)
              ELSE StoreUpdate(st, rv, slot, d, fail)
    IN  [doc |-> d, res |-> IF r.res = "ok" THEN "ok" ELSE "ApplyFailed", out |-> r.out,
         store |-> r.store, rv |-> r.rv, trace |-> <<WriteCall(op, slot, d, st, r)>>]

\* Variant: an update that meets NotFound falls back to create.
UpsertCall_CreateOnNotFound(s, built, st, rv, slot, fail) ==
    IF s = Nil \/ GetName(s) = ""
    THEN UpsertCall_CreateOnly(s, built, st, rv, slot, fail)
    ELSE LET d1 == SetResourceVersion(built, GetResourceVersion(s))
             r1 == StoreUpdate(st, rv, slot, d1, fail)
             r2 == StoreCreate(st, rv, slot, built, fail)
         IN  IF r1.res = "NotFound"
             THEN [doc |-> built, res |-> r2.res, out |-> r2.out, store |-> r2.store,
                   rv |-> r2.rv,
                   trace |-> <<WriteCall("update", slot, d1, st, r1),
                               WriteCall("create", slot, built, st, r2)>>]
             ELSE [doc |-> d1, res |-> r1.res, out |-> r1.out, store |-> r1.store, rv |-> r1.rv,
                   trace |-> <<WriteCall("update", slot, d1, st, r1)>>]

\* The write of the upsert, given the object the get returned (s) and the
\* document built from the plan:
\*   if secret == nil || secret.GetName() == "" { Create(obj) }
\*   else { obj.SetResourceVersion(secret.GetResourceVersion()); Update(obj) }
\* doc is obj after the call, trace the store calls made.
UpsertCall(s, built, st, rv, slot, fail) ==
    IF s = Nil \/ GetName(s) = ""
    THEN LET r == StoreCreate(st, rv, slot, built, fail)
         IN  [doc |-> built, res |-> r.res, out |-> r.out, store |-> r.store, rv |-> r.rv,
              trace |-> <<WriteCall("create", slot, built, st, r)>>]
    ELSE LET d == SetResourceVersion(built, GetResourceVersion(s))
             r == StoreUpdate(st, rv, slot, d, fail)
         IN  [doc |-> d, res |-> r.res, out |-> r.out, store |-> r.store, rv |-> r.rv,
              trace |-> <<WriteCall("update", slot, d, st, r)>>]

\* Variant: the Create handler only creates, the Update handler only updates.
HandlerUpsert_ByHandler(h, s, built, st, rv, slot, fail) ==
    IF h = "Create" THEN UpsertCall_CreateOnly(s, built, st, rv, slot, fail)
    ELSE IF s = Nil \/ GetName(s) = ""
         THEN UpsertCall_UpdateOnly(s, built, st, rv, slot, fail)
         ELSE UpsertCall(s, built, st, rv, slot, fail)

\* What the Create and the Update handler of a resource do with the plan:
\* both call the upsert (CreateValsSecret / CreateDbSecret), whichever
\* handler h is.
HandlerUpsert(h, s, built, st, rv, slot, fail) == UpsertCall(s, built, st, rv, slot, fail)

\* After a successful write the upsert decodes obj, the document it sent; the
\* store's response (out) is logged on the create branch and dropped on the
\* update branch.
ReturnedObject(k, sent, response) == DecodeObject(k, sent)

(***************************************************************************)
(* The initial state: an empty store, no resource in the Terraform state.  *)
(* The resource blocks are of one type: resources of different types       *)
(* address disjoint slots of the store.                                    *)
(***************************************************************************)
NoApplied == [noapplied |-> TRUE]

\* The codec is not run on its own.
CodecOff == [pc |-> "off"]

\* The secret data source is not read in the run.
LookupOff == [pc |-> "off"]

\* The provider is not configured in the run.
NoInput == [noinput |-> TRUE]
NoResolution == [noresolution |-> TRUE]
NoResponse == [diag |-> FALSE, ResourceData |-> Nil, DataSourceData |-> Nil]
Components == {"valssecret_resource", "valssecret_data_source"}

Init ==
    /\ codec = CodecOff
    /\ secrets = [id \in Identities |-> NoObject]
    /\ lookup = LookupOff
    /\ input = NoInput
    /\ ppc = "off"
    /\ resolved = NoResolution
    /\ presp = NoResponse
    /\ bag = Nil
    /\ handles = 0
    /\ clients = [c \in Components |-> [configured |-> FALSE, dynamicClient |-> 0, diag |-> FALSE]]
    /\ store = [sl \in Slots |-> NoObject]
    /\ nextRV = 1
    /\ kind \in {[w \in Workers |-> k] : k \in Kinds}
    /\ tfstate = [w \in Workers |-> NoState]
    /\ pc = [w \in Workers |-> "idle"]
    /\ handler = [w \in Workers |-> "none"]
    /\ plan = [w \in Workers |-> NoPlan]
    /\ pending = [w \in Workers |-> NoPlan]
    /\ obj = [w \in Workers |-> Nil]
    /\ secret = [w \in Workers |-> Nil]
    /\ err = [w \in Workers |-> ""]
    /\ diag = [w \in Workers |-> FALSE]
    /\ calls = [w \in Workers |-> <<>>]
    /\ was = [w \in Workers |-> NoState]
    /\ invocations = 0
    /\ foreign = 0
    /\ applied = [sl \in Slots |-> NoApplied]
    /\ prior = [w \in Workers |-> NoApplied]

\* A write the store serves needs room under the bound.
Room(rvAfter) == rvAfter = nextRV \/ nextRV < MaxRV

\* A handler is invoked: its locals are fresh.
Invoke(w, h, p, then) ==
    /\ handler' = [handler EXCEPT ![w] = h]
    /\ plan' = [plan EXCEPT ![w] = p]
    /\ pending' = [pending EXCEPT ![w] = then]
    /\ pc' = [pc EXCEPT ![w] = "start"]
    /\ obj' = [obj EXCEPT ![w] = Nil]
    /\ secret' = [secret EXCEPT ![w] = Nil]
    /\ err' = [err EXCEPT ![w] = ""]
    /\ diag' = [diag EXCEPT ![w] = FALSE]
    /\ calls' = [calls EXCEPT ![w] = <<>>]
    /\ prior' = [prior EXCEPT ![w] = NoApplied]

(***************************************************************************)
(* The surrounding tool: which handler an operation on a resource invokes  *)
(***************************************************************************)
\* Schema: the attributes that carry the RequiresReplace plan modifier.  The
\* dbsecret resource marks name and namespace; the valssecret resource marks
\* nothing.
RequiresReplace(k) == IF k = "DbSecret" THEN {"name", "namespace"} ELSE {}

\* The attributes among name and namespace that the plan changes.
IdentityChange(state, p) ==
    (IF state.Name # p.Name THEN {"name"} ELSE {})
        \cup (IF state.Namespace # p.Namespace THEN {"namespace"} ELSE {})

\* terraform apply of plan p: Create for a resource not in the state; Delete
\* then Create when the plan changes an attribute that requires replacement;
\* Update otherwise.
TerraformApply(w, p) ==
    /\ pc[w] = "idle"
    /\ was' = [was EXCEPT ![w] = tfstate[w]]
    /\ invocations < MaxInvocations
    /\ invocations' = invocations + 1
    /\ p \in Plans(kind[w])
    /\ IF tfstate[w] = NoState
       THEN Invoke(w, "Create", p, NoPlan)
       ELSE IF IdentityChange(tfstate[w], p) \cap RequiresReplace(kind[w]) # {}
            THEN Invoke(w, "Delete", tfstate[w], p)
            ELSE Invoke(w, "Update", p, NoPlan)
    /\ UNCHANGED <<store, nextRV, kind, tfstate, foreign, applied>>

\* terraform destroy
TerraformDestroy(w) ==
    /\ pc[w] = "idle"
    /\ was' = [was EXCEPT ![w] = tfstate[w]]
    /\ invocations < MaxInvocations
    /\ invocations' = invocations + 1
    /\ tfstate[w] # NoState
    /\ Invoke(w, "Delete", tfstate[w], NoPlan)
    /\ UNCHANGED <<store, nextRV, kind, tfstate, foreign, applied>>

\* terraform refresh
TerraformRefresh(w) ==
    /\ pc[w] = "idle"
    /\ was' = [was EXCEPT ![w] = tfstate[w]]
    /\ invocations < MaxInvocations
    /\ invocations' = invocations + 1
    /\ tfstate[w] # NoState
    /\ Invoke(w, "Read", tfstate[w], NoPlan)
    /\ UNCHANGED <<store, nextRV, kind, tfstate, foreign, applied>>

(***************************************************************************)
(* The upsert: CreateValsSecret / CreateDbSecret, called by the Create and *)
(* Update handlers of the resource                                         *)
(***************************************************************************)
\* The first half: build obj, get the object, return on an error other than
\* NotFound (the handler then records the diagnostic and leaves the state).
UpsertGet(w, k) ==
    /\ pc[w] = "start"
    /\ handler[w] \in {"Create", "Update"}
    /\ kind[w] = k
    /\ \E fail \in {"none", "lost_request"} :
        LET p    == plan[w]
            slot == Slot(k, p.Namespace, p.Name)
            g    == StoreGet(store, slot, fail)
            r    == GetObject(k, store, p.Namespace, p.Name, fail)
            c    == Call("get", slot, NoRV, g.res, CurrentRV(store, slot),
                         CurrentRV(store, slot), g.out, nextRV)
        IN  /\ obj' = [obj EXCEPT ![w] = BuildObj(k, p)]
            /\ secret' = [secret EXCEPT ![w] = r.secret]
            /\ err' = [err EXCEPT ![w] = r.err]
            /\ calls' = [calls EXCEPT ![w] = Append(@, c)]
            /\ prior' = [prior EXCEPT ![w] = IF g.res = "ok" THEN applied[slot] ELSE NoApplied]
            /\ IF GetAbortsUpsert(r.err)
               THEN /\ pc' = [pc EXCEPT ![w] = "idle"]
                    /\ diag' = [diag EXCEPT ![w] = TRUE]
               ELSE /\ pc' = [pc EXCEPT ![w] = "got"]
                    /\ UNCHANGED diag
    /\ UNCHANGED <<store, nextRV, kind, tfstate, handler, plan, pending, was, invocations,
                   foreign, applied>>

\* The second half: create or update, decode, return; the handler then sets
\* the state to the plan, or records the diagnostic.
UpsertWrite(w, k) ==
    /\ pc[w] = "got"
    /\ kind[w] = k
    /\ \E fail \in FailModes :
        LET p    == plan[w]
            slot == Slot(k, p.Namespace, p.Name)
            u    == HandlerUpsert(handler[w], secret[w], obj[w], store, nextRV, slot, fail)
            ret  == IF u.res # "ok" THEN [secret |-> secret[w], err |-> u.res]
                    ELSE ReturnedObject(k, u.doc, u.out)
            good == ret.err = ""
        IN  /\ Room(u.rv)
            /\ store' = u.store
            /\ nextRV' = u.rv
            /\ obj' = [obj EXCEPT ![w] = u.doc]
            /\ secret' = [secret EXCEPT ![w] = ret.secret]
            /\ err' = [err EXCEPT ![w] = ret.err]
            /\ calls' = [calls EXCEPT ![w] = @ \o u.trace]
            /\ diag' = [diag EXCEPT ![w] = ~good]
            /\ tfstate' = [tfstate EXCEPT ![w] = IF good THEN p ELSE @]
            /\ applied' = [applied EXCEPT ![slot] =
                              IF good THEN [plan |-> p, ret |-> ret.secret]
                              ELSE IF u.store # store THEN NoApplied ELSE @]
    /\ pc' = [pc EXCEPT ![w] = "idle"]
    /\ UNCHANGED <<kind, handler, plan, pending, was, invocations, foreign, prior>>

CreateValsSecretGet(w) == UpsertGet(w, "ValsSecret")
CreateValsSecretWrite(w) == UpsertWrite(w, "ValsSecret")
CreateDbSecretGet(w) == UpsertGet(w, "DbSecret")
CreateDbSecretWrite(w) == UpsertWrite(w, "DbSecret")

(***************************************************************************)
(* The Read and Delete handlers of the resource                            *)
(***************************************************************************)
\* Variant: Read also copies the type of a valssecret and the vault role and
\* mount of a dbsecret.
Refreshed_EveryScalar(k, state, s) ==
    IF k = "ValsSecret"
    THEN [state EXCEPT !.Name = s.Meta.Name, !.Namespace = s.Meta.Namespace, !.Ttl = s.Spec.TTL,
                       !.Type = s.Spec.Type]
    ELSE [state EXCEPT !.Name = s.Meta.Name, !.Namespace = s.Meta.Namespace,
                       !.VaultRole = s.Spec.Vault.Role, !.VaultMount = s.Spec.Vault.Mount]

\* What Read copies from the fetched object into the state: name and
\* namespace, and for a valssecret the ttl.
Refreshed(k, state, s) ==
    IF k = "ValsSecret"
    THEN [state EXCEPT !.Name = s.Meta.Name, !.Namespace = s.Meta.Namespace, !.Ttl = s.Spec.TTL]
    ELSE [state EXCEPT !.Name = s.Meta.Name, !.Namespace = s.Meta.Namespace]

\* Variant: a Read that finds the object gone removes the resource from the
\* state without a diagnostic.
ReadOutcome_RemovesAbsent(k, state, r) ==
    IF r.err = "NotFound" THEN [state |-> NoState, diag |-> FALSE]
    ELSE [state |-> IF r.err = "" THEN Refreshed(k, state, r.secret) ELSE state,
          diag  |-> r.err # ""]

\* The end of Read, given the state of the request and what the get helper
\* returned: on an error the diagnostic is added and the handler returns, the
\* response's state being the request's; otherwise the refreshed state is set.
ReadOutcome(k, state, r) ==
    [state |-> IF r.err = "" THEN Refreshed(k, state, r.secret) ELSE state,
     diag  |-> r.err # ""]

ResourceRead(w, k) ==
    /\ pc[w] = "start"
    /\ handler[w] = "Read"
    /\ kind[w] = k
    /\ \E fail \in {"none", "lost_request"} :
        LET p    == plan[w]
            slot == Slot(k, p.Namespace, p.Name)
            g    == StoreGet(store, slot, fail)
            r    == GetObject(k, store, p.Namespace, p.Name, fail)
            c    == Call("get", slot, NoRV, g.res, CurrentRV(store, slot),
                         CurrentRV(store, slot), g.out, nextRV)
        IN  /\ secret' = [secret EXCEPT ![w] = r.secret]
            /\ err' = [err EXCEPT ![w] = r.err]
            /\ calls' = [calls EXCEPT ![w] = Append(@, c)]
            /\ diag' = [diag EXCEPT ![w] = ReadOutcome(k, p, r).diag]
            /\ tfstate' = [tfstate EXCEPT ![w] = ReadOutcome(k, p, r).state]
    /\ pc' = [pc EXCEPT ![w] = "idle"]
    /\ UNCHANGED <<store, nextRV, kind, handler, plan, pending, obj, was, invocations,
                   foreign, applied, prior>>

ValsSecretResourceRead(w) == ResourceRead(w, "ValsSecret")
DbSecretResourceRead(w) == ResourceRead(w, "DbSecret")

\* Delete: DeleteValsSecret / DeleteDbSecret of the state's identity.  Without
\* an error diagnostic the tool drops the resource from the state and, in a
\* replacement, goes on to Create with the plan.
ResourceDelete(w, k) ==
    /\ pc[w] = "start"
    /\ handler[w] = "Delete"
    /\ kind[w] = k
    /\ \E fail \in FailModes :
        LET p    == plan[w]
            slot == Slot(k, p.Namespace, p.Name)
            r    == StoreDelete(store, nextRV, slot, fail)
            c    == Call("delete", slot, NoRV, r.res, CurrentRV(store, slot),
                         CurrentRV(r.store, slot), NoRV, r.rv)
            good == r.res = "ok"
        IN  /\ Room(r.rv)
            /\ store' = r.store
            /\ nextRV' = r.rv
            /\ applied' = [applied EXCEPT ![slot] = IF r.store # store THEN NoApplied ELSE @]
            /\ tfstate' = [tfstate EXCEPT ![w] = IF good THEN NoState ELSE @]
            /\ IF good /\ pending[w] # NoPlan
               THEN Invoke(w, "Create", pending[w], NoPlan)
               ELSE /\ err' = [err EXCEPT ![w] = IF good THEN "" ELSE r.res]
                    /\ diag' = [diag EXCEPT ![w] = ~good]
                    /\ calls' = [calls EXCEPT ![w] = Append(@, c)]
                    /\ pc' = [pc EXCEPT ![w] = "idle"]
                    /\ UNCHANGED <<handler, plan, pending, obj, secret, prior>>
    /\ UNCHANGED <<kind, was, invocations, foreign>>

ValsSecretResourceDelete(w) == ResourceDelete(w, "ValsSecret")
DbSecretResourceDelete(w) == ResourceDelete(w, "DbSecret")

(***************************************************************************)
(* Other clients of the store                                              *)
(***************************************************************************)
\* Documents another client may have written: a valssecret whose spec holds
\* data and a field of its own (no name, ttl, type or template), one whose
\* ttl is a string, and a dbsecret whose spec holds vault and a field of its
\* own.
ForeignSpecs(k) ==
    IF k = "ValsSecret"
    THEN {[data |-> [username |-> [ref |-> "ref+vault://secret/myapp/username"]],
           owner |-> "helm"],
          [data |-> EmptyMap, ttl |-> JStr("1h")]}
    ELSE {[vault |-> [role |-> "role", mount |-> "cass000"], owner |-> "helm"]}

ForeignDoc(slot, sp) ==
    [apiVersion |-> IF slot[1] = "ValsSecret" THEN "digitalis.io/v1" ELSE "digitalis.io/v1beta1",
     kind       |-> slot[1],
     metadata   |-> [name |-> slot[3], namespace |-> slot[2], resourceVersion |-> NoRV],
     spec       |-> sp]

\* Another client creates or replaces the object of a slot.
ForeignApply(slot) ==
    /\ nextRV < MaxRV
    /\ foreign < MaxForeign
    /\ foreign' = foreign + 1
    /\ \E w \in Workers : kind[w] = slot[1]
    /\ \E sp \in ForeignSpecs(slot[1]) :
        store' = [store EXCEPT ![slot] = SetResourceVersion(ForeignDoc(slot, sp), nextRV)]
    /\ nextRV' = nextRV + 1
    /\ applied' = [applied EXCEPT ![slot] = NoApplied]
    /\ UNCHANGED <<kind, tfstate, pc, handler, plan, pending, obj, secret, err, diag, calls,
                   was, invocations, prior>>

\* Another client deletes the object of a slot.
ForeignDelete(slot) ==
    /\ nextRV < MaxRV
    /\ foreign < MaxForeign
    /\ foreign' = foreign + 1
    /\ \E w \in Workers : kind[w] = slot[1]
    /\ store[slot] # NoObject
    /\ store' = [store EXCEPT ![slot] = NoObject]
    /\ nextRV' = nextRV + 1
    /\ applied' = [applied EXCEPT ![slot] = NoApplied]
    /\ UNCHANGED <<kind, tfstate, pc, handler, plan, pending, obj, secret, err, diag, calls,
                   was, invocations, prior>>

(***************************************************************************)
(* The specification                                                       *)
(***************************************************************************)
Next ==
    /\ UNCHANGED aux
    /\ \/ \E w \in Workers : \E p \in Plans(kind[w]) : TerraformApply(w, p)
       \/ \E w \in Workers : TerraformDestroy(w)
       \/ \E w \in Workers : TerraformRefresh(w)
       \/ \E w \in Workers : CreateValsSecretGet(w)
       \/ \E w \in Workers : CreateValsSecretWrite(w)
       \/ \E w \in Workers : CreateDbSecretGet(w)
       \/ \E w \in Workers : CreateDbSecretWrite(w)
       \/ \E w \in Workers : ValsSecretResourceRead(w)
       \/ \E w \in Workers : DbSecretResourceRead(w)
       \/ \E w \in Workers : ValsSecretResourceDelete(w)
       \/ \E w \in Workers : DbSecretResourceDelete(w)
       \/ \E slot \in Slots : ForeignApply(slot)
       \/ \E slot \in Slots : ForeignDelete(slot)

Spec == Init /\ [][Next]_vars

(***************************************************************************)
(* The codec on its own: a plan is encoded as CreateValsSecret encodes it, *)
(* and the document decoded as CreateValsSecret decodes it                 *)
(***************************************************************************)
SeqsUpTo(S, n) == UNION {[1..k -> S] : k \in 0..n}

\* The secret_ref and template entries the plans are made of: names repeat
\* with different values.
CodecRefs ==
    {[Name |-> "username", Ref |-> "ref+vault://secret/myapp/username", Encoding |-> "text"],
     [Name |-> "username", Ref |-> "ref+vault://secret/other/username", Encoding |-> ""],
     [Name |-> "password", Ref |-> "ref+vault://secret/myapp/password", Encoding |-> ""],
     [Name |-> "password", Ref |-> "ref+vault://secret/myapp/password", Encoding |-> "base64"]}
CodecTemplates ==
    {[Name |-> "config.yaml", Value |-> "username: {{.username}}"],
     [Name |-> "config.yaml", Value |-> "password: {{.password}}"],
     [Name |-> "url", Value |-> "https://{{.username}}@host"]}

\* ValsSecretResourceModel values: any ttl and type, lists up to MaxLen.
CodecPlans ==
    {[Name |-> "example", Namespace |-> ns, SecretRef |-> refs, Template |-> tpl,
      Type |-> type, Ttl |-> ttl] :
        ns \in {"default", "prod"},
        refs \in SeqsUpTo(CodecRefs, MaxLen),
        tpl \in SeqsUpTo(CodecTemplates, MaxLen),
        type \in {"Opaque", ""},
        ttl \in {0, 3600}}

CodecInit ==
    /\ Init
    /\ kind = [w \in Workers |-> "ValsSecret"]

\* A plan arrives.
CodecPlan ==
    /\ codec.pc = "off"
    /\ \E p \in CodecPlans : codec' = [pc |-> "plan", plan |-> p]
    /\ UNCHANGED <<store, nextRV, kind, tfstate, pc, handler, plan, pending, obj, secret,
                   err, diag, calls, was, invocations, foreign, applied, prior, provVars, lookupVars>>

\* CreateValsSecret builds obj.
CodecEncode ==
    /\ codec.pc = "plan"
    /\ codec' = [pc |-> "built", plan |-> codec.plan, doc |-> BuildValsSecretObj(codec.plan)]
    /\ UNCHANGED <<store, nextRV, kind, tfstate, pc, handler, plan, pending, obj, secret,
                   err, diag, calls, was, invocations, foreign, applied, prior, provVars, lookupVars>>

\* CreateValsSecret decodes obj.
CodecDecode ==
    /\ codec.pc = "built"
    /\ codec' = [pc |-> "decoded", plan |-> codec.plan, doc |-> codec.doc,
                 out |-> DecodeValsSecret(codec.doc)]
    /\ UNCHANGED <<store, nextRV, kind, tfstate, pc, handler, plan, pending, obj, secret,
                   err, diag, calls, was, invocations, foreign, applied, prior, provVars, lookupVars>>

CodecNext ==
    \/ CodecPlan
    \/ CodecEncode
    \/ CodecDecode

CodecSpec == CodecInit /\ [][CodecNext]_vars

(***************************************************************************)
(* Provider configuration: the provider block and the environment          *)
(***************************************************************************)
\* A URL string by its parts; the empty string has none.
URL(scheme, host, path) == [scheme |-> scheme, host |-> host, path |-> path]
EmptyURL == URL("", "", "")

\* What a provider block and the environment may set.  A run sets at most
\* MaxSet of them.
SettingNames ==
    {"host_url", "host_bare", "host_path", "insecure", "tls_server_name",
     "cluster_ca_certificate", "client_certificate", "client_key", "token", "username",
     "password", "proxy_url", "config_path", "config_path_missing", "config_path_user",
     "config_paths_one",
     "config_paths_two", "config_context", "config_context_auth_info",
     "config_context_cluster", "ignore_annotations", "ignore_labels",
     "KUBE_CONFIG_PATHS_one", "KUBE_CONFIG_PATHS_two", "KUBE_CONFIG_PATH"}

RECURSIVE SubsetsUpTo(_, _)
SubsetsUpTo(S, n) ==
    IF n = 0 THEN {{}}
    ELSE LET prev == SubsetsUpTo(S, n - 1)
         IN  prev \cup {F \cup {x} : F \in prev, x \in S}

Opt(F, name, v) == IF name \in F THEN v ELSE ""

\* ValsOperatorProviderModel as req.Config.Get fills it from the provider block.
ProviderModel(F) ==
    [Host |-> IF "host_url" \in F THEN URL("https", "explicit:6443", "")
              ELSE IF "host_bare" \in F THEN URL("", "explicit:6443", "")
              ELSE IF "host_path" \in F THEN URL("https", "explicit:6443", "/api")
              ELSE EmptyURL,
     Insecure |-> "insecure" \in F,
     TLSServerName |-> Opt(F, "tls_server_name", "sni.example"),
     ClusterCACertificate |-> Opt(F, "cluster_ca_certificate", "PEM:ca"),
     ClientCertificate |-> Opt(F, "client_certificate", "PEM:cert"),
     ClientKey |-> Opt(F, "client_key", "PEM:key"),
     Token |-> Opt(F, "token", "explicit-token"),
     Username |-> Opt(F, "username", "admin"),
     Password |-> Opt(F, "password", "secret"),
     ProxyURL |-> Opt(F, "proxy_url", "http://proxy:3128"),
     ConfigPath |-> IF "config_path" \in F THEN "~/a"
                    ELSE IF "config_path_user" \in F THEN "~other/a"
                    ELSE Opt(F, "config_path_missing", "/home/tf/missing"),
     ConfigPaths |-> IF "config_paths_one" \in F THEN <<"/home/tf/b">>
                     ELSE IF "config_paths_two" \in F THEN <<"/home/tf/b", "/home/tf/a">>
                     ELSE <<>>,
     ConfigContext |-> Opt(F, "config_context", "ctx-b"),
     ConfigContextAuthInfo |-> Opt(F, "config_context_auth_info", "user-b"),
     ConfigContextCluster |-> Opt(F, "config_context_cluster", "cluster-b"),
     IgnoreAnnotations |-> IF "ignore_annotations" \in F
                           THEN <<"kubectl.kubernetes.io/.*">> ELSE <<>>,
     IgnoreLabels |-> IF "ignore_labels" \in F
                      THEN <<"app.kubernetes.io/.*", "tier">> ELSE <<>>]

\* The environment of the provider process.
Environment(F) ==
    [KUBE_CONFIG_PATHS |-> IF "KUBE_CONFIG_PATHS_one" \in F THEN "/home/tf/a"
                           ELSE Opt(F, "KUBE_CONFIG_PATHS_two", "/home/tf/a:/home/tf/b"),
     KUBE_CONFIG_PATH |-> Opt(F, "KUBE_CONFIG_PATH", "/home/tf/a")]

Inputs == {[d |-> ProviderModel(F), env |-> Environment(F)] : F \in SubsetsUpTo(SettingNames, MaxSet)}

\* The credential files on disk.
KubeFile(cur, contexts, n) ==
    [CurrentContext |-> cur,
     Contexts |-> [c \in contexts |-> [Cluster |-> IF c = "ctx-a" THEN "cluster-a" ELSE "cluster-b",
                                       AuthInfo |-> IF c = "ctx-a" THEN "user-a" ELSE "user-b"]],
     Clusters |-> [c \in {IF x = "ctx-a" THEN "cluster-a" ELSE "cluster-b" : x \in contexts} |->
                      URL("https", IF c = "cluster-a" THEN "file-a:6443" ELSE n, "")],
     AuthInfos |-> [u \in {IF x = "ctx-a" THEN "user-a" ELSE "user-b" : x \in contexts} |->
                      IF u = "user-a" THEN "token-a" ELSE "token-b"]]
EmptyKubeFile == KubeFile("", {}, "")
Files ==
    [f \in {"/home/tf/a", "/home/tf/b"} |->
        IF f = "/home/tf/a" THEN KubeFile("ctx-a", {"ctx-a", "ctx-b"}, "file-a-b:6443")
        ELSE KubeFile("ctx-b", {"ctx-b"}, "file-b:6443")]

\* homedir.Expand: ~/ is the home directory, ~user is refused, any other path
\* is left as it is.
HomedirExpand(path) ==
    IF path = "~/a" THEN [path |-> "/home/tf/a", err |-> ""]
    ELSE IF path = "~other/a" THEN [path |-> "", err |-> "cannot expand user-specific home dir"]
    ELSE [path |-> path, err |-> ""]
\* filepath.SplitList
SplitList(v) ==
    IF v = "" THEN <<>>
    ELSE IF v = "/home/tf/a:/home/tf/b" THEN <<"/home/tf/a", "/home/tf/b">>
    ELSE <<v>>

(***************************************************************************)
(* clientcmd: loading the credential files and merging the overrides       *)
(***************************************************************************)
\* Of two files the first wins, key by key.
MergeFiles(a, b) ==
    [CurrentContext |-> IF a.CurrentContext # "" THEN a.CurrentContext ELSE b.CurrentContext,
     Contexts  |-> [c \in DOMAIN a.Contexts \cup DOMAIN b.Contexts |->
                       IF c \in DOMAIN a.Contexts THEN a.Contexts[c] ELSE b.Contexts[c]],
     Clusters  |-> [c \in DOMAIN a.Clusters \cup DOMAIN b.Clusters |->
                       IF c \in DOMAIN a.Clusters THEN a.Clusters[c] ELSE b.Clusters[c]],
     AuthInfos |-> [u \in DOMAIN a.AuthInfos \cup DOMAIN b.AuthInfos |->
                       IF u \in DOMAIN a.AuthInfos THEN a.AuthInfos[u] ELSE b.AuthInfos[u]]]

\* The files of a precedence list that exist, merged; a missing one is skipped.
RECURSIVE LoadPrecedence(_)
LoadPrecedence(paths) ==
    IF paths = <<>> THEN EmptyKubeFile
    ELSE LET rest == LoadPrecedence(Tail(paths))
         IN  IF Head(paths) \in DOMAIN Files THEN MergeFiles(Files[Head(paths)], rest) ELSE rest

\* ClientConfigLoadingRules.Load: an explicit path must exist.
Load(loader) ==
    IF loader.ExplicitPath # ""
    THEN IF loader.ExplicitPath \in DOMAIN Files
         THEN [file |-> Files[loader.ExplicitPath], err |-> ""]
         ELSE [file |-> EmptyKubeFile, err |-> "NotExist"]
    ELSE [file |-> LoadPrecedence(loader.Precedence), err |-> ""]

Over(v, w) == IF v # "" THEN v ELSE w

\* A name that is set must be defined in the loaded file.
Known(m, k) == k = "" \/ k \in DOMAIN m
Lookup(m, k, zero) == IF k \in DOMAIN m THEN m[k] ELSE zero

\* The context, cluster and user a client is built for: the overridden or the
\* file's current context, and the cluster and user of that context unless
\* overridden.
Selected(f, o) ==
    LET ctx == Lookup(f.Contexts, Over(o.CurrentContext, f.CurrentContext),
                      [Cluster |-> "", AuthInfo |-> ""])
    IN  [context |-> Over(o.CurrentContext, f.CurrentContext),
         cluster |-> Over(o.Context.Cluster, ctx.Cluster),
         user    |-> Over(o.Context.AuthInfo, ctx.AuthInfo)]

\* The server of the merged cluster: an overridden server wins over the file's.
ServerOf(f, o, cluster) ==
    IF o.ClusterInfo.Server # EmptyURL THEN o.ClusterInfo.Server
    ELSE Lookup(f.Clusters, cluster, EmptyURL)

\* ConfirmUsable and the empty-configuration test.
ConfigError(loadErr, f, n, server) ==
    IF loadErr # "" THEN loadErr
    ELSE IF ~Known(f.Contexts, n.context) THEN "context does not exist"
    ELSE IF ~Known(f.Clusters, n.cluster) THEN "cluster does not exist"
    ELSE IF ~Known(f.AuthInfos, n.user) THEN "auth info does not exist"
    ELSE IF server = EmptyURL THEN "no configuration has been provided"
    ELSE ""

\* The restclient.Config of the merged configuration: every override that is
\* set wins over the file.
MergedConfig(f, o, n, server) ==
    [Host        |-> server,
     Insecure    |-> o.ClusterInfo.InsecureSkipTLSVerify,
     ServerName  |-> o.ClusterInfo.TLSServerName,
     CAData      |-> o.ClusterInfo.CertificateAuthorityData,
     CertData    |-> o.AuthInfo.ClientCertificateData,
     KeyData     |-> o.AuthInfo.ClientKeyData,
     Username    |-> o.AuthInfo.Username,
     Password    |-> o.AuthInfo.Password,
     BearerToken |-> Over(o.AuthInfo.Token, Lookup(f.AuthInfos, n.user, "")),
     ProxyURL    |-> o.ClusterDefaults.ProxyURL,
     UserAgent   |-> ""]

Built(e, cfg) == IF e # "" THEN [cfg |-> Nil, err |-> e] ELSE [cfg |-> cfg, err |-> ""]

ClientConfigOf(l, o, n) ==
    Built(ConfigError(l.err, l.file, n, ServerOf(l.file, o, n.cluster)),
          MergedConfig(l.file, o, n, ServerOf(l.file, o, n.cluster)))

ClientConfigFrom(l, o) == ClientConfigOf(l, o, Selected(l.file, o))

\* NewNonInteractiveDeferredLoadingClientConfig(loader, overrides).ClientConfig()
ClientConfig(loader, o) == ClientConfigFrom(Load(loader), o)

\* restclient.DefaultServerURL(host, "", GroupVersion{}, defaultTLS): a host
\* without a scheme gets https when defaultTLS and http otherwise; a host with
\* a path is refused.
DefaultServerURL(host, defaultTLS) ==
    LET scheme == IF host.scheme # "" THEN host.scheme
                  ELSE IF defaultTLS THEN "https" ELSE "http"
    IN  IF host.path \notin {"", "/"}
        THEN [url |-> EmptyURL, err |-> "host must be a URL or a host:port pair"]
        ELSE [url |-> URL(scheme, host.host, ""), err |-> ""]

\* &restclient.Config{}
EmptyRestConfig ==
    [Host |-> EmptyURL, Insecure |-> FALSE, ServerName |-> "", CAData |-> "", CertData |-> "",
     KeyData |-> "", Username |-> "", Password |-> "", BearerToken |-> "", ProxyURL |-> "",
     UserAgent |-> ""]

(***************************************************************************)
(* initializeConfiguration                                                 *)
(***************************************************************************)
\* Variant: config_paths is looked at before config_path.
ConfigPathsOf_ListFirst(d, env) ==
    IF Len(d.ConfigPaths) > 0 THEN d.ConfigPaths
    ELSE IF d.ConfigPath # "" THEN <<d.ConfigPath>>
    ELSE IF env.KUBE_CONFIG_PATHS # "" THEN SplitList(env.KUBE_CONFIG_PATHS)
    ELSE <<>>

\* configPaths: config_path, else config_paths, else KUBE_CONFIG_PATHS.
ConfigPathsOf(d, env) ==
    IF d.ConfigPath # "" THEN <<d.ConfigPath>>
    ELSE IF Len(d.ConfigPaths) > 0 THEN d.ConfigPaths
    ELSE IF env.KUBE_CONFIG_PATHS # "" THEN SplitList(env.KUBE_CONFIG_PATHS)
    ELSE <<>>

\* loader: one expanded path is the explicit file, more are the precedence.
LoaderOf(paths) ==
    LET expandedPaths == [i \in 1..Len(paths) |-> HomedirExpand(paths[i]).path]
    IN  IF Len(paths) = 0 THEN [ExplicitPath |-> "", Precedence |-> <<>>]
        ELSE IF Len(expandedPaths) = 1
             THEN [ExplicitPath |-> expandedPaths[1], Precedence |-> <<>>]
             ELSE [ExplicitPath |-> "", Precedence |-> expandedPaths]

NoContextOverrides == [CurrentContext |-> "", Context |-> [AuthInfo |-> "", Cluster |-> ""]]

\* Variant: the context triple is applied whether or not a path list was selected.
ContextOverrides_WithoutPaths(d, paths) ==
    [CurrentContext |-> d.ConfigContext,
     Context |-> [AuthInfo |-> d.ConfigContextAuthInfo, Cluster |-> d.ConfigContextCluster]]

\* overrides.CurrentContext and overrides.Context, set inside the branch of a
\* non-empty path list.
ContextOverrides(d, paths) ==
    LET kubectx  == d.ConfigContext
        authInfo == d.ConfigContextAuthInfo
        cluster  == d.ConfigContextCluster
    IN  IF Len(paths) > 0 /\ (kubectx # "" \/ authInfo # "" \/ cluster # "")
        THEN [CurrentContext |-> IF kubectx # "" THEN kubectx ELSE "",
              Context |-> [AuthInfo |-> IF authInfo # "" THEN authInfo ELSE "",
                           Cluster  |-> IF cluster # "" THEN cluster ELSE ""]]
        ELSE NoContextOverrides

\* Variant: any explicit credential counts as TLS material.
DefaultTLS_AnyCredential(d) ==
    \/ d.ClusterCACertificate # "" \/ d.ClientCertificate # "" \/ d.Insecure
    \/ d.ClientKey # "" \/ d.Token # ""

\* defaultTLS := hasCA || hasCert || overrides.ClusterInfo.InsecureSkipTLSVerify
DefaultTLS(d) ==
    LET hasCA   == d.ClusterCACertificate # ""
        hasCert == d.ClientCertificate # ""
    IN  hasCA \/ hasCert \/ d.Insecure

\* Variant: the host is not overlaid.
ServerOverride_Dropped(d) == [url |-> EmptyURL, err |-> ""]

\* overrides.ClusterInfo.Server: the explicit host through DefaultServerURL.
ServerOverride(d) ==
    IF d.Host # EmptyURL THEN DefaultServerURL(d.Host, DefaultTLS(d))
    ELSE [url |-> EmptyURL, err |-> ""]

\* overrides after the context triple and the static fields are overlaid.
Overrides(d, paths) ==
    LET c == ContextOverrides(d, paths)
    IN  [CurrentContext |-> c.CurrentContext,
         Context |-> c.Context,
         ClusterInfo |-> [InsecureSkipTLSVerify    |-> d.Insecure,
                          TLSServerName            |-> d.TLSServerName,
                          CertificateAuthorityData |-> d.ClusterCACertificate,
                          Server                   |-> ServerOverride(d).url],
         AuthInfo |-> [ClientCertificateData |-> d.ClientCertificate,
                       Username              |-> d.Username,
                       Password              |-> d.Password,
                       ClientKeyData         |-> d.ClientKey,
                       Token                 |-> d.Token],
         ClusterDefaults |-> [ProxyURL |-> d.ProxyURL]]

\* The error of the first path homedir.Expand refuses.
ExpandError(paths) ==
    IF \E i \in 1..Len(paths) : HomedirExpand(paths[i]).err # ""
    THEN HomedirExpand(paths[CHOOSE i \in 1..Len(paths) :
                                 /\ HomedirExpand(paths[i]).err # ""
                                 /\ \A j \in 1..(i - 1) : HomedirExpand(paths[j]).err = ""]).err
    ELSE ""

\* What initializeConfiguration returns, with the loader and the overrides it
\* worked with.
Resolution(d, env, cfg, e) ==
    [cfg |-> cfg, err |-> e, paths |-> ConfigPathsOf(d, env),
     loader |-> LoaderOf(ConfigPathsOf(d, env)),
     overrides |-> Overrides(d, ConfigPathsOf(d, env))]

\* Variant: a host that does not parse is treated like a loader failure.
InitializeConfiguration_HostErrorDegrades(d, env) ==
    LET r == ClientConfig(LoaderOf(ConfigPathsOf(d, env)), Overrides(d, ConfigPathsOf(d, env)))
    IN  IF ExpandError(ConfigPathsOf(d, env)) # ""
        THEN Resolution(d, env, Nil, ExpandError(ConfigPathsOf(d, env)))
        ELSE IF ServerOverride(d).err # "" \/ r.err # "" THEN Resolution(d, env, Nil, "")
        ELSE Resolution(d, env, r.cfg, "")

\* initializeConfiguration: an error for a path that does not expand or a host
\* that does not parse; nil and no error when clientcmd fails; the resolved
\* configuration otherwise.
InitializeConfiguration(d, env) ==
    LET r == ClientConfig(LoaderOf(ConfigPathsOf(d, env)), Overrides(d, ConfigPathsOf(d, env)))
    IN  IF ExpandError(ConfigPathsOf(d, env)) # ""
        THEN Resolution(d, env, Nil, ExpandError(ConfigPathsOf(d, env)))
        ELSE IF ServerOverride(d).err # "" THEN Resolution(d, env, Nil, "failed to parse host")
        ELSE IF r.err # "" THEN Resolution(d, env, Nil, "")
        ELSE Resolution(d, env, r.cfg, "")

(***************************************************************************)
(* Provider Configure, the client bag, and the Configure of the components *)
(***************************************************************************)
\* fmt.Sprintf("HashiCorp/1.0 Terraform/%s", req.TerraformVersion)
UserAgent == "HashiCorp/1.0 Terraform/1.5.0"

\* x.String() of a list element: the string in double quotes.
ElementString(x) == "\"" \o x \o "\""
ElementStrings(list) == [i \in 1..Len(list) |-> ElementString(list[i])]

\* ignoreAnnotations and ignoreLabels after the two loops: both loops append
\* to ignoreAnnotations.
IgnoreLists(d) ==
    [ignoreAnnotations |-> ElementStrings(d.IgnoreAnnotations) \o ElementStrings(d.IgnoreLabels),
     ignoreLabels      |-> <<>>]

\* m := &kubeClientsets{...}
KubeClientsets(cfg, d) ==
    [config |-> cfg, dynamicClient |-> 0,
     IgnoreAnnotations |-> IgnoreLists(d).ignoreAnnotations,
     IgnoreLabels |-> IgnoreLists(d).ignoreLabels]

\* Variant: the empty configuration of the degraded case is not tagged.
ConfigureResult_DegradedUntagged(r, d) ==
    IF r.err # "" THEN [diag |-> TRUE, bag |-> Nil]
    ELSE IF r.cfg = Nil
         THEN [diag |-> FALSE, bag |-> KubeClientsets(EmptyRestConfig, d)]
         ELSE [diag |-> FALSE,
               bag |-> KubeClientsets([r.cfg EXCEPT !.UserAgent = UserAgent], d)]

\* ValsOperatorProvider.Configure after initializeConfiguration returned r.
ConfigureResult(r, d) ==
    IF r.err # "" THEN [diag |-> TRUE, bag |-> Nil]
    ELSE LET cfg == IF r.cfg = Nil THEN EmptyRestConfig ELSE r.cfg
         IN  [diag |-> FALSE, bag |-> KubeClientsets([cfg EXCEPT !.UserAgent = UserAgent], d)]

\* kubeClientsets.DynamicClient on the receiver k; fresh is the handle
\* dynamic.NewForConfig returns when ok.  receiver is k when the method returns.
DynamicClient(k, fresh, ok) ==
    IF k.dynamicClient # 0
    THEN [client |-> k.dynamicClient, err |-> "", receiver |-> k, made |-> FALSE]
    ELSE IF k.config # Nil
         THEN IF ok THEN [client |-> fresh, err |-> "", made |-> TRUE,
                          receiver |-> [k EXCEPT !.dynamicClient = fresh]]
              ELSE [client |-> 0, err |-> "Failed to configure dynamic client",
                    receiver |-> k, made |-> FALSE]
         ELSE [client |-> 0, err |-> "", receiver |-> k, made |-> FALSE]

\* DynamicClient has a value receiver: called through the pointer in
\* ProviderData it works on a copy of the struct, and the struct the pointer
\* designates stays as it was.
CallByValue(k, receiver) == k

\* The provider block is read.
ProviderBlock ==
    /\ ppc = "off"
    /\ \E i \in Inputs : input' = i
    /\ ppc' = "input"
    /\ UNCHANGED <<reconcilerVars, codec, lookupVars, resolved, presp, bag, handles, clients>>

ProviderConfigure ==
    /\ ppc = "input"
    /\ LET r == InitializeConfiguration(input.d, input.env)
           c == ConfigureResult(r, input.d)
       IN  /\ resolved' = r
           /\ bag' = c.bag
           /\ presp' = [diag |-> c.diag,
                        ResourceData |-> IF c.bag = Nil THEN Nil ELSE [pointer |-> "m"],
                        DataSourceData |-> IF c.bag = Nil THEN Nil ELSE [pointer |-> "m"]]
           /\ ppc' = IF c.diag THEN "failed" ELSE "configured"
    /\ UNCHANGED <<reconcilerVars, codec, lookupVars, input, handles, clients>>

\* kubeClientsets.MainClientset on the receiver k: an error when
\* kubernetes.NewForConfig fails.
MainClientset(k, ok) ==
    IF k.config # Nil /\ ~ok THEN [err |-> "Failed to configure client"] ELSE [err |-> ""]

\* Configure of a resource or data source: the clients from ProviderData,
\* MainClientset first, DynamicClient last; an error of either is recorded and
\* ends the handler.
ComponentConfigure(c) ==
    /\ ppc = "configured"
    /\ ~clients[c].configured
    /\ \E okMain, ok \in BOOLEAN :
        LET main == MainClientset(bag, okMain)
            r    == DynamicClient(bag, handles + 1, ok)
        IN  IF main.err # ""
            THEN /\ clients' = [clients EXCEPT ![c] =
                                   [configured |-> TRUE, dynamicClient |-> 0, diag |-> TRUE]]
                 /\ UNCHANGED <<bag, handles>>
            ELSE /\ bag' = CallByValue(bag, r.receiver)
                 /\ handles' = IF r.made THEN handles + 1 ELSE handles
                 /\ clients' = [clients EXCEPT ![c] =
                                   [configured |-> TRUE,
                                    dynamicClient |-> IF r.err = "" THEN r.client ELSE 0,
                                    diag |-> r.err # ""]]
    /\ UNCHANGED <<reconcilerVars, codec, lookupVars, input, ppc, resolved, presp>>

ValsSecretResourceConfigure == ComponentConfigure("valssecret_resource")
ValsSecretDataSourceConfigure == ComponentConfigure("valssecret_data_source")

ConfigNext ==
    \/ ProviderBlock
    \/ ProviderConfigure
    \/ ValsSecretResourceConfigure
    \/ ValsSecretDataSourceConfigure

ConfigInit ==
    /\ Init
    /\ kind = [w \in Workers |-> "ValsSecret"]

ConfigSpec == ConfigInit /\ [][ConfigNext]_vars

(***************************************************************************)
(* secret_data_source.go: the lookup of a core Secret                      *)
(***************************************************************************)
\* A null attribute value: data and binary_data are computed, so the
\* configuration of the data source holds no value for them.
Null == "(null)"

\* corev1.Secret objects other clients keep in the cluster.
CoreSecret(id, type, data, binaryData) ==
    [metadata |-> [namespace |-> id[1], name |-> id[2]], type |-> type,
     data |-> data, binaryData |-> binaryData]
CoreSecrets(id) ==
    {CoreSecret(id, type, data, "") : type \in {"Opaque", "kubernetes.io/tls"},
                                      data \in {"", "password=aHVudGVyMg=="}}
        \cup {CoreSecret(id, "Opaque", "", "keystore=AAEC")}

\* SecretDataSourceModel as req.Config.Get fills it.
SecretDataSourceConfigs ==
    {[Name |-> id[2], Namespace |-> id[1], Data |-> Null, BinaryData |-> Null, Type |-> Null] :
        id \in Identities}

\* p.client.CoreV1().Secrets(namespace).Get(ctx, secretName, ...)
GetSecret(st, ns, n, fail) ==
    IF fail # "none" THEN [secret |-> Nil, err |-> "TransportError"]
    ELSE IF st[<<ns, n>>] = NoObject THEN [secret |-> Nil, err |-> "NotFound"]
    ELSE [secret |-> st[<<ns, n>>], err |-> ""]

\* Variant: the contents of the secret are copied into the result.
SecretProjection_WithData(data, s) ==
    [data EXCEPT !.Name = s.metadata.name, !.Namespace = s.metadata.namespace,
                 !.Type = s.type, !.Data = s.data, !.BinaryData = s.binaryData]

\* data.Name, data.Namespace and data.Type are set from the secret.
SecretProjection(data, s) ==
    [data EXCEPT !.Name = s.metadata.name, !.Namespace = s.metadata.namespace,
                 !.Type = s.type]

\* Another client creates, replaces or deletes a secret.
SecretWrite(id) ==
    /\ \E v \in CoreSecrets(id) \cup {NoObject} :
           /\ v # secrets[id]
           /\ secrets' = [secrets EXCEPT ![id] = v]
    /\ UNCHANGED <<reconcilerVars, codec, provVars, lookup>>

\* The configuration of a data "valsoperator_secret" block arrives.
SecretDataSourceConfig ==
    /\ lookup.pc = "off"
    /\ \E c \in SecretDataSourceConfigs : lookup' = [pc |-> "config", config |-> c]
    /\ UNCHANGED <<reconcilerVars, codec, provVars, secrets>>

\* SecretDataSource.Read: getSecret, then the result is set from the secret,
\* or the error is recorded and no result is set.  The call history keeps the
\* secret under the slot before and after the call.
SecretDataSourceRead ==
    /\ lookup.pc = "config"
    /\ UNCHANGED <<reconcilerVars, codec, provVars, secrets>>
    /\ \E fail \in {"none", "lost_request"} :
        LET data == lookup.config
            slot == <<data.Namespace, data.Name>>
            r    == GetSecret(secrets, data.Namespace, data.Name, fail)
            c    == [op |-> "get", slot |-> slot, res |-> r.err, out |-> r.secret,
                     before |-> secrets[slot], after |-> secrets'[slot]]
        IN  lookup' = [pc |-> "done", config |-> data, calls |-> <<c>>,
                       diag |-> r.err # "",
                       state |-> IF r.err # "" THEN NoState
                                 ELSE SecretProjection(data, r.secret)]

LookupNext ==
    \/ \E id \in Identities : SecretWrite(id)
    \/ SecretDataSourceConfig
    \/ SecretDataSourceRead

LookupInit ==
    /\ Init
    /\ kind = [w \in Workers |-> "ValsSecret"]

LookupSpec == LookupInit /\ [][LookupNext]_vars

(***************************************************************************)
(* Properties                                                              *)
(***************************************************************************)
\* The worker's handler in flight or last run is an upsert.
Upserting(w) == handler[w] \in {"Create", "Update"}
\* The worker's invocation has returned.
Returned(w) == pc[w] = "idle"
PlanSlot(w) == Slot(kind[w], plan[w].Namespace, plan[w].Name)
\* A document whose ttl, when present, is a number.
WellTyped(doc) == "ttl" \in DOMAIN doc.spec => doc.spec.ttl.t = "int"

\* C1: an upsert (of either kind) of an identity the store does not hold
\* issues one get, which returns NotFound, then one create, and no update:
\* the history of the invocation is <<get>> while it is in flight and
\* <<get, create>> once it returned, every call addressing the plan's slot.
C1_AbsentIdentityGetThenCreate ==
    \A w \in Workers :
        (/\ Upserting(w)
         /\ Len(calls[w]) >= 1
         /\ calls[w][1].before = NoRV
         /\ calls[w][1].res # "TransportError")
        => /\ calls[w][1].op = "get"
           /\ calls[w][1].res = "NotFound"
           /\ pc[w] = "got" => Len(calls[w]) = 1
           /\ Returned(w) => (Len(calls[w]) = 2 /\ calls[w][2].op = "create")
           /\ \A i \in 1..Len(calls[w]) : calls[w][i].slot = PlanSlot(w)

C1_Witness ==
    \E w \in Workers :
        /\ Upserting(w) /\ Returned(w) /\ Len(calls[w]) = 2
        /\ calls[w][1].res = "NotFound"
        /\ calls[w][2].op = "create" /\ calls[w][2].res = "ok"
        /\ store[PlanSlot(w)] # NoObject

\* C2: in every upsert, update is the second call, after a get that
\* succeeded, and its document carries the non-empty version token of the
\* object that get returned; the document of a create carries no token; after
\* a get that returned NotFound there is no update.
C2_VersionTokenDiscipline ==
    \A w \in Workers :
        Upserting(w) =>
            \A i \in 1..Len(calls[w]) :
                LET c == calls[w][i]
                IN  /\ c.op = "update" =>
                          /\ i = 2
                          /\ calls[w][1].op = "get"
                          /\ calls[w][1].res = "ok"
                          /\ c.sent # NoRV
                          /\ c.sent = OutRV(calls[w][1].out)
                    /\ c.op = "create" => c.sent = NoRV

C2_Witness ==
    \E w \in Workers :
        /\ Upserting(w) /\ Returned(w) /\ Len(calls[w]) = 2
        /\ calls[w][2].op = "update" /\ calls[w][2].res = "ok"
        /\ calls[w][2].sent = OutRV(calls[w][1].out)

\* C3: when the get of an upsert fails in transport, or the fetched document
\* does not decode, the upsert returns that error, the handler records it, and
\* the invocation makes no other store call: its history is the get alone,
\* which left the slot as it was.
C3_GetErrorAbortsUpsert ==
    \A w \in Workers :
        (/\ Upserting(w)
         /\ Len(calls[w]) >= 1
         /\ \/ calls[w][1].res = "TransportError"
            \/ calls[w][1].res = "ok" /\ ~WellTyped(calls[w][1].out))
        => /\ Returned(w)
           /\ Len(calls[w]) = 1
           /\ calls[w][1].before = calls[w][1].after
           /\ err[w] = (IF calls[w][1].res = "ok" THEN "DecodeError" ELSE "TransportError")
           /\ diag[w]

C3_Witness ==
    \E w1, w2 \in Workers :
        /\ Upserting(w1) /\ Returned(w1) /\ err[w1] = "TransportError" /\ Len(calls[w1]) = 1
        /\ Upserting(w2) /\ Returned(w2) /\ err[w2] = "DecodeError" /\ Len(calls[w2]) = 1

\* Two returned upserts of one slot whose gets returned the same object
\* version, and whose writes (a first, b second) reached the store one after
\* the other with no other write to the slot before or between them.
RacedUpdates(a, b) ==
    /\ a # b
    /\ Upserting(a) /\ Upserting(b) /\ Returned(a) /\ Returned(b)
    /\ Len(calls[a]) >= 2 /\ Len(calls[b]) >= 2
    /\ PlanSlot(a) = PlanSlot(b)
    /\ calls[a][1].res = "ok" /\ calls[b][1].res = "ok"
    /\ OutRV(calls[a][1].out) = OutRV(calls[b][1].out)
    /\ calls[a][2].before = OutRV(calls[a][1].out)
    /\ calls[b][2].before = calls[a][2].after
    /\ calls[a][2].res # "TransportError" /\ calls[b][2].res # "TransportError"

\* C4: of two concurrent upserts that hold the same version token, the first
\* update succeeds and the second returns Conflict to its caller; the second
\* makes no further call and leaves the stored document as the first wrote it.
C4_StaleUpdateConflicts ==
    \A a, b \in Workers :
        RacedUpdates(a, b) =>
            /\ calls[a][2].op = "update" /\ calls[a][2].res = "ok" /\ err[a] = ""
            /\ calls[b][2].op = "update" /\ calls[b][2].res = "Conflict"
            /\ err[b] = "Conflict" /\ diag[b]
            /\ Len(calls[b]) = 2
            /\ calls[b][2].after = calls[a][2].after

C4_Witness ==
    \E a, b \in Workers :
        /\ RacedUpdates(a, b)
        /\ calls[a][2].res = "ok" /\ err[b] = "Conflict"
        /\ CurrentRV(store, PlanSlot(a)) = calls[a][2].after

\* Two returned upserts of one slot whose gets both returned NotFound, and
\* whose writes (a first, b second) reached the store one after the other with
\* no other write to the slot before or between them.
RacedCreates(a, b) ==
    /\ a # b
    /\ Upserting(a) /\ Upserting(b) /\ Returned(a) /\ Returned(b)
    /\ Len(calls[a]) >= 2 /\ Len(calls[b]) >= 2
    /\ PlanSlot(a) = PlanSlot(b)
    /\ calls[a][1].res = "NotFound" /\ calls[b][1].res = "NotFound"
    /\ calls[a][2].before = NoRV
    /\ calls[b][2].before = calls[a][2].after
    /\ calls[a][2].res # "TransportError" /\ calls[b][2].res # "TransportError"

\* C5: of two concurrent upserts that both saw NotFound, both call create;
\* the first create succeeds and the second returns AlreadyExists to its
\* caller, which makes no further call (no retry, no update), and the store
\* keeps the document of the first.
C5_LosingCreateAlreadyExists ==
    \A a, b \in Workers :
        RacedCreates(a, b) =>
            /\ calls[a][2].op = "create" /\ calls[a][2].res = "ok" /\ err[a] = ""
            /\ calls[b][2].op = "create" /\ calls[b][2].res = "AlreadyExists"
            /\ err[b] = "AlreadyExists" /\ diag[b]
            /\ Len(calls[b]) = 2
            /\ calls[b][2].after = calls[a][2].after

C5_Witness ==
    \E a, b \in Workers :
        /\ RacedCreates(a, b)
        /\ calls[a][2].res = "ok" /\ err[b] = "AlreadyExists"
        /\ store[PlanSlot(a)] = calls[a][2].out

\* What an application observes of a decoded object: its identity and its
\* spec payload.  The version token is the store's bookkeeping and changes
\* with every write.
Observed(s) == [Name |-> s.Meta.Name, Namespace |-> s.Meta.Namespace, Spec |-> s.Spec]

\* An upsert that returned after its write, applying again the plan whose
\* upsert was the last write to the slot, with no write to the slot between
\* its get and its write, and whose write was not lost in transport.
SecondApplication(w) ==
    /\ Upserting(w) /\ Returned(w) /\ Len(calls[w]) >= 2
    /\ prior[w] # NoApplied
    /\ prior[w].plan = plan[w]
    /\ calls[w][2].before = calls[w][1].before
    /\ calls[w][2].res # "TransportError"

\* C6: applying the same plan a second time, in sequence and without
\* interference, succeeds through the update branch, and the object the
\* second upsert returns shows the same identity and spec as the object the
\* first returned.
C6_Idempotence ==
    \A w \in Workers :
        SecondApplication(w) =>
            /\ err[w] = ""
            /\ Len(calls[w]) = 2
            /\ calls[w][2].op = "update" /\ calls[w][2].res = "ok"
            /\ Observed(secret[w]) = Observed(prior[w].ret)
            /\ tfstate[w] = plan[w]

C6_Witness ==
    \E w \in Workers :
        /\ SecondApplication(w)
        /\ was[w] = plan[w]
        /\ handler[w] = "Update"
        /\ Observed(secret[w]) = Observed(prior[w].ret)

\* The calls of an invocation with one of the given operations.
CallsOf(w, ops) == {i \in 1..Len(calls[w]) : calls[w][i].op \in ops}

\* C7: an upsert makes at most one get and at most one write (a create or an
\* update): no call before the get, the get alone while the write is pending,
\* and the invocation has returned once a call failed with anything but the
\* get's NotFound or once the write was made, whatever its outcome.
C7_AtMostOneGetOneWrite ==
    \A w \in Workers :
        Upserting(w) =>
            /\ Cardinality(CallsOf(w, {"get"})) <= 1
            /\ Cardinality(CallsOf(w, {"create", "update"})) <= 1
            /\ Len(calls[w]) <= 2
            /\ pc[w] = "start" => calls[w] = <<>>
            /\ pc[w] = "got" => (Len(calls[w]) = 1 /\ calls[w][1].op = "get"
                                 /\ calls[w][1].res \in {"ok", "NotFound"})
            /\ Returned(w) => \/ Len(calls[w]) = 1 /\ calls[w][1].op = "get" /\ err[w] # ""
                              \/ Len(calls[w]) = 2 /\ calls[w][1].op = "get"
                                 /\ calls[w][2].op \in {"create", "update"}

C7_Witness ==
    \E a, b \in Workers :
        /\ Upserting(a) /\ Returned(a) /\ Len(calls[a]) = 2
        /\ calls[a][1].res = "ok" /\ calls[a][2].res = "TransportError"
        /\ Upserting(b) /\ Returned(b) /\ Len(calls[b]) = 2
        /\ calls[b][1].res = "NotFound" /\ calls[b][2].res = "AlreadyExists"

\* C8: the object a successful upsert returns is the decoding of the document
\* the store returned from the create or update call, and so carries the
\* version token the store assigned by that write.
C8_ReturnedObjectFromResponse ==
    \A w \in Workers :
        (/\ Upserting(w) /\ Returned(w) /\ Len(calls[w]) = 2
         /\ calls[w][2].res = "ok")
        => /\ secret[w] = DecodeObject(kind[w], calls[w][2].out).secret
           /\ GetResourceVersion(secret[w]) = calls[w][2].after

\* No worker but w has invoked a handler, and no other client has written.
OnlyActor(w) ==
    /\ foreign = 0
    /\ \A v \in Workers \ {w} : pc[v] = "idle" /\ calls[v] = <<>>

\* C9: for both kinds, an apply whose plan changes the name or the namespace
\* of a resource in the state does not run Update: the old object is deleted
\* and the new one created, so when the apply has succeeded and nobody else
\* wrote, the store holds nothing under the old identity.
C9_IdentityChangeForcesRecreation ==
    \A w \in Workers :
        (/\ Upserting(w)
         /\ was[w] # NoState
         /\ IdentityChange(was[w], plan[w]) # {})
        => /\ handler[w] # "Update"
           /\ (Returned(w) /\ err[w] = "" /\ OnlyActor(w))
                  => store[Slot(kind[w], was[w].Namespace, was[w].Name)] = NoObject

\* C10: GetValsSecret of a stored document whose spec has neither ttl nor type
\* returns, without an error, an object with ttl 3600 and type "Opaque"; the
\* Read handler then puts ttl 3600 into the state.
C10_DecodeDefaults ==
    \A w \in Workers :
        (/\ kind[w] = "ValsSecret"
         /\ Len(calls[w]) = 1
         /\ calls[w][1].op = "get" /\ calls[w][1].res = "ok"
         /\ "ttl" \notin DOMAIN calls[w][1].out.spec
         /\ "type" \notin DOMAIN calls[w][1].out.spec)
        => /\ err[w] = ""
           /\ secret[w].Spec.TTL = 3600
           /\ secret[w].Spec.Type = "Opaque"
           /\ handler[w] = "Read" => tfstate[w].Ttl = 3600

\* The entries of a list whose name no later entry of the list has.
LastOfName(list) == {i \in 1..Len(list) : \A j \in (i + 1)..Len(list) : list[j].Name # list[i].Name}
NamesOf(list) == {list[i].Name : i \in 1..Len(list)}

\* The scalar fields of the plan are those of the decoded object.
ScalarsRoundTrip(p, s) ==
    /\ s.Meta.Name = p.Name /\ s.Spec.Name = p.Name
    /\ s.Meta.Namespace = p.Namespace
    /\ s.Spec.TTL = p.Ttl
    /\ s.Spec.Type = p.Type

\* C11 (as the code has it): decoding the document built from a plan gives,
\* without an error, the plan's name, namespace, ttl and type, and data and
\* template maps whose keys are the names of the lists; each key carries the
\* values of the last entry of its name, so an entry round-trips when no
\* later entry has its name.
C11_RoundTripLastOfName ==
    codec.pc = "decoded" =>
        LET p == codec.plan
            s == codec.out.secret
        IN  /\ codec.out.err = ""
            /\ ScalarsRoundTrip(p, s)
            /\ DOMAIN s.Spec.Data = NamesOf(p.SecretRef)
            /\ DOMAIN s.Spec.Template = NamesOf(p.Template)
            /\ \A i \in LastOfName(p.SecretRef) :
                   s.Spec.Data[p.SecretRef[i].Name]
                       = [Ref |-> p.SecretRef[i].Ref, Encoding |-> p.SecretRef[i].Encoding]
            /\ \A i \in LastOfName(p.Template) :
                   s.Spec.Template[p.Template[i].Name] = p.Template[i].Value

C11_Witness ==
    /\ codec.pc = "decoded"
    /\ Len(codec.plan.SecretRef) = 2 /\ Cardinality(NamesOf(codec.plan.SecretRef)) = 2
    /\ codec.plan.SecretRef[1].Encoding = "text"
    /\ Len(codec.plan.Template) = 2 /\ Cardinality(NamesOf(codec.plan.Template)) = 1
    /\ codec.plan.Template[2].Name = "config.yaml"
    /\ codec.out.secret.Spec.Template["config.yaml"] = codec.plan.Template[2].Value

\* C11 (as stated): every entry of the secret_ref and template lists is a key
\* of the decoded map with that entry's values.
C11_RoundTripEveryEntry ==
    codec.pc = "decoded" =>
        LET p == codec.plan
            s == codec.out.secret
        IN  /\ codec.out.err = ""
            /\ ScalarsRoundTrip(p, s)
            /\ \A i \in 1..Len(p.SecretRef) :
                   /\ p.SecretRef[i].Name \in DOMAIN s.Spec.Data
                   /\ s.Spec.Data[p.SecretRef[i].Name]
                          = [Ref |-> p.SecretRef[i].Ref, Encoding |-> p.SecretRef[i].Encoding]
            /\ \A i \in 1..Len(p.Template) :
                   /\ p.Template[i].Name \in DOMAIN s.Spec.Template
                   /\ s.Spec.Template[p.Template[i].Name] = p.Template[i].Value

\* Provider Configure has run and resolved a connection configuration.
Resolved == ppc \in {"configured", "failed"} /\ resolved.cfg # Nil
\* No environment variable is set.
EnvUnset == input.env.KUBE_CONFIG_PATHS = "" /\ input.env.KUBE_CONFIG_PATH = ""
\* The server the file at path p names for its current context.
FileServer(p) == Files[p].Clusters[Files[p].Contexts[Files[p].CurrentContext].Cluster]
\* The provider block names the one existing file p and no context override.
OnlyFile(p) ==
    /\ HomedirExpand(input.d.ConfigPath).path = p
    /\ input.d.ConfigContext = "" /\ input.d.ConfigContextAuthInfo = ""
    /\ input.d.ConfigContextCluster = ""

\* C12: when the provider block gives an explicit host, the resolved
\* configuration's server is that host, whatever server the credential file
\* names; when it gives none, the server is one a credential file names, and
\* with one file and no context override it is the server of that file's
\* current context.
C12_ExplicitHostOverridesFile ==
    Resolved =>
        /\ input.d.Host # EmptyURL =>
              /\ resolved.cfg.Host.host = input.d.Host.host
              /\ \A p \in DOMAIN Files : \A c \in DOMAIN Files[p].Clusters :
                     resolved.cfg.Host # Files[p].Clusters[c]
        /\ input.d.Host = EmptyURL =>
              /\ \E p \in DOMAIN Files : \E c \in DOMAIN Files[p].Clusters :
                     resolved.cfg.Host = Files[p].Clusters[c]
              /\ \A p \in DOMAIN Files : OnlyFile(p) => resolved.cfg.Host = FileServer(p)

C12_Witness ==
    /\ Resolved /\ EnvUnset /\ OnlyFile("/home/tf/a")
    /\ input.d.Host = URL("https", "explicit:6443", "")
    /\ FileServer("/home/tf/a") = URL("https", "file-a:6443", "")
    /\ resolved.cfg.Host = URL("https", "explicit:6443", "")

\* initializeConfiguration has run on the provider block.
Initialized == ppc \in {"configured", "failed"}
NoContextTriple ==
    /\ input.d.ConfigContext = "" /\ input.d.ConfigContextAuthInfo = ""
    /\ input.d.ConfigContextCluster = ""

\* C13: the path list is <<config_path>> when config_path is set, whatever
\* config_paths is; else config_paths when it has entries; else the split of
\* KUBE_CONFIG_PATHS when it is set; else empty.  One path is the loader's
\* explicit file, which must exist; more paths are its precedence, in order,
\* the earlier file winning.
C13_CredentialFileSelection ==
    Initialized =>
        LET d     == input.d
            env   == input.env
            paths == resolved.paths
        IN  /\ d.ConfigPath # "" => paths = <<d.ConfigPath>>
            /\ (d.ConfigPath = "" /\ Len(d.ConfigPaths) > 0) => paths = d.ConfigPaths
            /\ (d.ConfigPath = "" /\ Len(d.ConfigPaths) = 0 /\ env.KUBE_CONFIG_PATHS # "")
                   => paths = SplitList(env.KUBE_CONFIG_PATHS)
            /\ (d.ConfigPath = "" /\ Len(d.ConfigPaths) = 0 /\ env.KUBE_CONFIG_PATHS = "")
                   => paths = <<>>
            /\ Len(paths) = 0 => resolved.loader = [ExplicitPath |-> "", Precedence |-> <<>>]
            /\ Len(paths) = 1 =>
                   /\ resolved.loader = [ExplicitPath |-> HomedirExpand(paths[1]).path,
                                         Precedence |-> <<>>]
                   /\ HomedirExpand(paths[1]).path \notin DOMAIN Files => resolved.cfg = Nil
            /\ Len(paths) > 1 =>
                   /\ resolved.loader.ExplicitPath = ""
                   /\ Len(resolved.loader.Precedence) = Len(paths)
                   /\ \A i \in 1..Len(paths) :
                          resolved.loader.Precedence[i] = HomedirExpand(paths[i]).path
                   /\ (d.Host = EmptyURL /\ NoContextTriple) =>
                          /\ resolved.cfg # Nil
                          /\ resolved.cfg.Host = FileServer(resolved.loader.Precedence[1])

C13_Witness ==
    /\ Initialized
    /\ input.d.ConfigPath = "~/a" /\ input.d.ConfigPaths = <<"/home/tf/b">>
    /\ input.env.KUBE_CONFIG_PATHS # ""
    /\ resolved.loader.ExplicitPath = "/home/tf/a"
    /\ resolved.cfg # Nil /\ resolved.cfg.Host = FileServer("/home/tf/a")

\* C14: when the provider block gives neither config_path nor config_paths
\* and the environment variable KUBE_CONFIG_PATH names a credential file (and
\* KUBE_CONFIG_PATHS is unset), that file is the loader's explicit file and the
\* configuration is resolved from it.
C14_ConfigPathFromEnvironment ==
    (/\ Initialized
     /\ input.d.ConfigPath = "" /\ Len(input.d.ConfigPaths) = 0
     /\ input.env.KUBE_CONFIG_PATHS = ""
     /\ input.env.KUBE_CONFIG_PATH \in DOMAIN Files)
    => /\ resolved.paths = <<input.env.KUBE_CONFIG_PATH>>
       /\ resolved.loader.ExplicitPath = input.env.KUBE_CONFIG_PATH
       /\ (input.d.Host = EmptyURL /\ NoContextTriple) =>
              /\ resolved.cfg # Nil
              /\ resolved.cfg.Host = FileServer(input.env.KUBE_CONFIG_PATH)

\* C15: with a path list selected, the overrides carry exactly the non-empty
\* ones of config_context, config_context_auth_info and config_context_cluster
\* and the resolution follows them, the file's current context supplying what
\* is not overridden; with no path list selected the overrides carry none of
\* the three, and they have no effect on the resolution.
C15_ContextOverride ==
    Initialized =>
        LET d == input.d
            o == resolved.overrides
            p == resolved.loader.ExplicitPath
        IN  /\ Len(resolved.paths) > 0 =>
                   /\ o.CurrentContext = d.ConfigContext
                   /\ o.Context.AuthInfo = d.ConfigContextAuthInfo
                   /\ o.Context.Cluster = d.ConfigContextCluster
            /\ Len(resolved.paths) = 0 =>
                   /\ o.CurrentContext = "" /\ o.Context.AuthInfo = "" /\ o.Context.Cluster = ""
                   /\ (d.Host # EmptyURL /\ resolved.err = "") => resolved.cfg # Nil
            /\ (p \in DOMAIN Files /\ resolved.cfg # Nil) =>
                   LET f       == Files[p]
                       ctx     == f.Contexts[IF d.ConfigContext # "" THEN d.ConfigContext
                                             ELSE f.CurrentContext]
                       cluster == IF d.ConfigContextCluster # "" THEN d.ConfigContextCluster
                                  ELSE ctx.Cluster
                       user    == IF d.ConfigContextAuthInfo # "" THEN d.ConfigContextAuthInfo
                                  ELSE ctx.AuthInfo
                   IN  /\ d.Host = EmptyURL => resolved.cfg.Host = f.Clusters[cluster]
                       /\ d.Token = "" => resolved.cfg.BearerToken = f.AuthInfos[user]

C15_Witness ==
    /\ Initialized
    /\ resolved.loader.ExplicitPath = "/home/tf/a"
    /\ input.d.ConfigContext = "" /\ input.d.ConfigContextAuthInfo = ""
    /\ input.d.ConfigContextCluster = "cluster-b"
    /\ input.d.Host = EmptyURL /\ input.d.Token = ""
    /\ resolved.overrides.Context.Cluster = "cluster-b"
    /\ resolved.overrides.CurrentContext = ""
    /\ resolved.cfg # Nil
    /\ resolved.cfg.Host = URL("https", "file-a-b:6443", "")
    /\ resolved.cfg.BearerToken = "token-a"

\* C16: an explicit host without a scheme resolves to https exactly when the
\* provider block gives a CA bundle, a client certificate or insecure = true,
\* and to http otherwise, whatever client key, token, username or password it
\* gives; an explicit host with a scheme keeps it.
C16_DefaultTLSFromTLSMaterial ==
    (Initialized /\ input.d.Host # EmptyURL /\ resolved.err = "") =>
        LET d      == input.d
            tls    == d.ClusterCACertificate # "" \/ d.ClientCertificate # "" \/ d.Insecure
            scheme == IF d.Host.scheme # "" THEN d.Host.scheme
                      ELSE IF tls THEN "https" ELSE "http"
        IN  /\ resolved.overrides.ClusterInfo.Server = URL(scheme, d.Host.host, "")
            /\ resolved.cfg # Nil => resolved.cfg.Host = URL(scheme, d.Host.host, "")

C16_Witness ==
    /\ Initialized
    /\ input.d.Host = URL("", "explicit:6443", "")
    /\ input.d.ClientKey # "" /\ input.d.Token # ""
    /\ resolved.cfg # Nil
    /\ resolved.cfg.Host = URL("http", "explicit:6443", "")

C18_LoaderFailureDegrades ==
    Initialized =>
        /\ (/\ resolved.err = ""
            /\ \/ (resolved.loader.ExplicitPath # ""
                     /\ resolved.loader.ExplicitPath \notin DOMAIN Files)
               \/ (Len(resolved.paths) = 0 /\ input.d.Host = EmptyURL))
           => resolved.cfg = Nil
        /\ resolved.err = "" =>
              /\ ppc = "configured"
              /\ ~presp.diag
              /\ presp.ResourceData # Nil /\ presp.DataSourceData # Nil
              /\ bag # Nil /\ bag.config # Nil
              /\ bag.config.UserAgent = UserAgent
              /\ bag.config = [(IF resolved.cfg = Nil THEN EmptyRestConfig ELSE resolved.cfg)
                                  EXCEPT !.UserAgent = UserAgent]

C18_Witness ==
    /\ Initialized
    /\ input.d.ConfigPath = "/home/tf/missing"
    /\ input.d.Token # ""
    /\ resolved.cfg = Nil /\ resolved.err = ""
    /\ ~presp.diag /\ presp.ResourceData # Nil
    /\ bag.config.UserAgent = UserAgent /\ bag.config.Host = EmptyURL
    /\ bag.config.BearerToken = ""

\* C19: after provider Configure, the Configure calls of the resources and
\* data sources construct at most one dynamic client handle between them, and
\* every component that was given a handle holds the same one.
C19_DynamicClientConstructedOnce ==
    /\ handles <= 1
    /\ \A c1, c2 \in Components :
           (/\ clients[c1].configured /\ clients[c1].dynamicClient # 0
            /\ clients[c2].configured /\ clients[c2].dynamicClient # 0)
           => clients[c1].dynamicClient = clients[c2].dynamicClient

\* The identity a worker's plan names.
Identity(w) == <<plan[w].Namespace, plan[w].Name>>
\* Two workers whose only invocations are upserts of different identities.
DifferentIdentities(a, b) ==
    /\ a # b
    /\ invocations = 2
    /\ Upserting(a) /\ Upserting(b)
    /\ Identity(a) # Identity(b)
\* The worker's last store call.
LastCall(w) == calls[w][Len(calls[w])]
\* The worker's upsert returned without error.
Succeeded(w) == Returned(w) /\ err[w] = "" /\ Len(calls[w]) = 2

\* C20: of two upserts of different identities, however their steps
\* interleave, each addresses only the slot of its own (namespace, name) and
\* never the other's; a Conflict or AlreadyExists that one of them meets is due
\* to a write of another client between its get and its write, never to the
\* other upsert; the document each wrote stays in its slot as long as no other
\* client writes there; and when no other client writes, the store holds both
\* desired documents and no object of any other identity.
C20_DifferentIdentitiesAreSafe ==
    \A a, b \in Workers :
        DifferentIdentities(a, b) =>
            LET slotA == <<kind[a], plan[a].Namespace, plan[a].Name>>
                slotB == <<kind[b], plan[b].Namespace, plan[b].Name>>
            IN  /\ \A i \in 1..Len(calls[a]) : calls[a][i].slot = slotA
                /\ \A j \in 1..Len(calls[b]) : calls[b][j].slot # slotA
                /\ \A i \in 1..Len(calls[a]) :
                       calls[a][i].res \in {"Conflict", "AlreadyExists"} =>
                           /\ foreign > 0
                           /\ i = 2
                           /\ calls[a][2].before # calls[a][1].after
                /\ (Succeeded(a) /\ CurrentRV(store, slotA) = LastCall(a).after) =>
                       store[slotA] = SetResourceVersion(BuildObj(kind[a], plan[a]),
                                                         LastCall(a).after)
                /\ foreign = 0 =>
                       /\ Succeeded(a) => CurrentRV(store, slotA) = LastCall(a).after
                       /\ \A sl \in Slots \ {slotA, slotB} : store[sl] = NoObject

\* An update and a create of different identities interleaved: the create
\* was served after the get of the update and before its write, and the store
\* holds both documents.
C20_Witness ==
    \E a, b \in Workers :
        /\ DifferentIdentities(a, b)
        /\ Succeeded(a) /\ Succeeded(b)
        /\ LastCall(a).op = "update" /\ LastCall(b).op = "create"
        /\ calls[a][1].clock < LastCall(b).clock
        /\ LastCall(b).clock < LastCall(a).clock
        /\ store[<<kind[a], plan[a].Namespace, plan[a].Name>>]
               = SetResourceVersion(BuildObj(kind[a], plan[a]), LastCall(a).after)
        /\ store[<<kind[b], plan[b].Namespace, plan[b].Name>>]
               = SetResourceVersion(BuildObj(kind[b], plan[b]), LastCall(b).after)

DbSecretStamped(doc, p) ==
    /\ doc.apiVersion = "digitalis.io/v1beta1"
    /\ doc.kind = "DbSecret"
    /\ doc.metadata.name = p.Name
    /\ doc.metadata.namespace = p.Namespace
    /\ doc.spec.vault = [role |-> p.VaultRole, mount |-> p.VaultMount]

\* C22: every store call of a dbsecret handler addresses the dbsecrets slot
\* of the namespace and name it was given; the document an upsert builds and
\* sends, and the document the store returns for a served write, are stamped
\* digitalis.io/v1beta1 DbSecret with the plan's name, namespace and vault role
\* and mount; the object a successful upsert returns echoes the plan's name,
\* namespace and vault fields.
C22_DbSecretBinding ==
    \A w \in Workers :
        kind[w] = "DbSecret" =>
            /\ \A i \in 1..Len(calls[w]) :
                   /\ calls[w][i].slot = <<"DbSecret", plan[w].Namespace, plan[w].Name>>
                   /\ (calls[w][i].op \in {"create", "update"} /\ calls[w][i].res = "ok")
                          => DbSecretStamped(calls[w][i].out, plan[w])
            /\ (Upserting(w) /\ obj[w] # Nil) => DbSecretStamped(obj[w], plan[w])
            /\ (Upserting(w) /\ Returned(w) /\ err[w] = "") =>
                   /\ secret[w].Meta.Kind = "DbSecret"
                   /\ secret[w].Meta.APIVersion = "digitalis.io/v1beta1"
                   /\ secret[w].Meta.Name = plan[w].Name
                   /\ secret[w].Meta.Namespace = plan[w].Namespace
                   /\ secret[w].Spec.Vault = [Role |-> plan[w].VaultRole,
                                              Mount |-> plan[w].VaultMount]

C22_Witness ==
    \E w \in Workers :
        /\ kind[w] = "DbSecret" /\ Upserting(w) /\ Returned(w) /\ err[w] = ""
        /\ Len(calls[w]) = 2
        /\ calls[w][1].res = "NotFound" /\ calls[w][2].op = "create"
        /\ plan[w].Name = "example" /\ plan[w].Namespace = "default"
        /\ plan[w].VaultRole = "role" /\ plan[w].VaultMount = "cass000"
        /\ DbSecretStamped(store[<<"DbSecret", "default", "example">>], plan[w])
        /\ secret[w].Spec.Vault = [Role |-> "role", Mount |-> "cass000"]

\* The write step of worker w's upsert, the store answering with an error.
WriteFailed(w) ==
    /\ Upserting(w) /\ pc[w] = "got" /\ pc'[w] = "idle"
    /\ Len(calls'[w]) > Len(calls[w])
    /\ calls'[w][Len(calls[w]) + 1].res # "ok"

\* C23: when the create or update of an upsert returns an error, the upsert
\* made that one write call and makes no other, the error it returns is the
\* store's, the handler records a diagnostic, and the Terraform state of the
\* resource is as it was before the step; the worker's history does not grow
\* once the handler returned.
C23_WriteErrorReturnedUnchanged ==
    [][\A w \in Workers :
          /\ WriteFailed(w) =>
                 /\ Len(calls'[w]) = Len(calls[w]) + 1
                 /\ calls'[w][Len(calls'[w])].op \in {"create", "update"}
                 /\ err'[w] = calls'[w][Len(calls'[w])].res
                 /\ err'[w] \in {"AlreadyExists", "Conflict", "NotFound", "TransportError"}
                 /\ diag'[w]
                 /\ tfstate'[w] = tfstate[w]
          /\ (Returned(w) /\ handler'[w] = handler[w] /\ pc'[w] = "idle")
                 => calls'[w] = calls[w]
      ]_vars

C23_Witness ==
    \E a, b \in Workers :
        /\ a # b /\ Upserting(a) /\ Upserting(b) /\ Returned(a) /\ Returned(b)
        /\ Len(calls[a]) = 2 /\ Len(calls[b]) = 2
        /\ calls[a][2].res = "TransportError" /\ err[a] = "TransportError" /\ diag[a]
        /\ tfstate[a] = NoState
        /\ calls[b][2].res = "AlreadyExists" /\ err[b] = "AlreadyExists" /\ diag[b]
        /\ tfstate[b] = NoState

\* C24: after provider Configure the client bag's IgnoreAnnotations is the
\* configured ignore_annotations list and its IgnoreLabels is the configured
\* ignore_labels list; no entry of ignore_labels is in IgnoreAnnotations.
C24_IgnoreListsPerKind ==
    (ppc = "configured" /\ bag # Nil) =>
        /\ Len(bag.IgnoreAnnotations) = Len(input.d.IgnoreAnnotations)
        /\ Len(bag.IgnoreLabels) = Len(input.d.IgnoreLabels)
        /\ \A i \in 1..Len(bag.IgnoreAnnotations) :
               \A j \in 1..Len(input.d.IgnoreLabels) :
                   bag.IgnoreAnnotations[i] # ElementString(input.d.IgnoreLabels[j])

\* C25: the document the store returns for the write of an upsert has, as
\* its spec, the spec of the document built from the plan, and so has the
\* stored object as long as nothing wrote to the slot after the upsert: no
\* field or map key of the object the get fetched is retained unless the plan
\* gives it.
C25_FullReplace ==
    \A w \in Workers :
        (Upserting(w) /\ Returned(w) /\ err[w] = "" /\ Len(calls[w]) = 2) =>
            LET built == BuildObj(kind[w], plan[w])
            IN  /\ calls[w][2].out.spec = built.spec
                /\ DOMAIN calls[w][2].out.spec = DOMAIN built.spec
                /\ CurrentRV(store, PlanSlot(w)) = calls[w][2].after =>
                       store[PlanSlot(w)].spec = built.spec

C25_Witness ==
    \E w \in Workers :
        /\ Upserting(w) /\ Returned(w) /\ err[w] = "" /\ Len(calls[w]) = 2
        /\ calls[w][2].op = "update"
        /\ "owner" \in DOMAIN calls[w][1].out.spec
        /\ CurrentRV(store, PlanSlot(w)) = calls[w][2].after
        /\ "owner" \notin DOMAIN store[PlanSlot(w)].spec
        /\ store[PlanSlot(w)].spec = BuildObj(kind[w], plan[w]).spec

\* C26: the branch of the write depends on what the get found and not on the
\* handler.  A Create or an Update whose get found the object writes with
\* update, one whose get found nothing writes with create.  When the slot was
\* not written between the get and the write, the write is never refused with
\* AlreadyExists or NotFound, and unless the transport failed it succeeds: a
\* Create over an existing object replaces its spec, an Update of an absent
\* object leaves the object present.
C26_BranchFollowsStore ==
    \A w \in Workers :
        (Upserting(w) /\ Len(calls[w]) = 2) =>
            LET g == calls[w][1]
                c == calls[w][2]
            IN  /\ c.op = IF g.res = "ok" THEN "update" ELSE "create"
                /\ c.before = g.after =>
                       /\ c.res \in {"ok", "TransportError"}
                       /\ c.res = "ok" =>
                              /\ err[w] = ""
                              /\ c.after # NoRV
                              /\ c.out.spec = BuildObj(kind[w], plan[w]).spec
                              /\ tfstate[w] = plan[w]

\* An Update that found its object gone and created it again.
C26_Witness ==
    \E w \in Workers :
        /\ Succeeded(w) /\ handler[w] = "Update"
        /\ was[w] # NoState
        /\ was[w].Name = plan[w].Name /\ was[w].Namespace = plan[w].Namespace
        /\ calls[w][1].res = "NotFound" /\ calls[w][2].op = "create"

\* A Create that found the object another client wrote and replaced its spec.
C26_WitnessCreate ==
    \E w \in Workers :
        /\ Succeeded(w) /\ handler[w] = "Create"
        /\ calls[w][1].res = "ok" /\ calls[w][2].op = "update"
        /\ calls[w][1].out.spec # calls[w][2].out.spec

\* The attributes a Read of the resource may write.
ReadWrites(k) == IF k = "ValsSecret" THEN {"Name", "Namespace", "Ttl"} ELSE {"Name", "Namespace"}

\* A Read that returned without an error.
ReadDone(w) == handler[w] = "Read" /\ Returned(w) /\ err[w] = ""

\* C27: a Read of the resource that found the object makes one get and no
\* write, sets name and namespace (and the ttl of a valssecret) from the
\* object, and leaves every other attribute of the state as it was, whatever
\* the object holds.
C27_ReadRefreshesIdentityOnly ==
    \A w \in Workers :
        ReadDone(w) =>
            /\ Len(calls[w]) = 1 /\ calls[w][1].op = "get"
            /\ calls[w][1].before = calls[w][1].after
            /\ DOMAIN tfstate[w] = DOMAIN was[w]
            /\ \A f \in DOMAIN was[w] \ ReadWrites(kind[w]) : tfstate[w][f] = was[w][f]
            /\ tfstate[w].Name = secret[w].Meta.Name
            /\ tfstate[w].Namespace = secret[w].Meta.Namespace
            /\ kind[w] = "ValsSecret" => tfstate[w].Ttl = secret[w].Spec.TTL

\* A Read of an object another client replaced: its type, or its vault role,
\* is not the state's, and the state keeps its own.
C27_Witness ==
    \E w \in Workers :
        /\ ReadDone(w)
        /\ IF kind[w] = "ValsSecret"
           THEN /\ secret[w].Spec.Type # tfstate[w].Type
                /\ secret[w].Spec.TTL # was[w].Ttl
                /\ tfstate[w].Ttl = secret[w].Spec.TTL
           ELSE secret[w].Spec.Vault.Role # tfstate[w].VaultRole

\* C28: a Read of the resource whose get answers NotFound records an error
\* diagnostic and leaves the state as it was: the resource stays in the
\* state, and the Read makes no write, so the object stays absent until some
\* later write.
C28_ReadOfAbsentKeepsState ==
    \A w \in Workers :
        (handler[w] = "Read" /\ Returned(w) /\ err[w] = "NotFound") =>
            /\ diag[w]
            /\ tfstate[w] = was[w]
            /\ tfstate[w] # NoState
            /\ Len(calls[w]) = 1 /\ calls[w][1].op = "get"
            /\ calls[w][1].after = NoRV
            /\ nextRV = calls[w][1].clock => store[PlanSlot(w)] = NoObject

\* The object of a resource in the state was deleted by another client, and
\* the refresh that followed found it gone.
C28_Witness ==
    \E w \in Workers :
        /\ handler[w] = "Read" /\ Returned(w) /\ err[w] = "NotFound"
        /\ foreign = 1
        /\ tfstate[w] \in Plans(kind[w])
        /\ store[PlanSlot(w)] = NoObject

\* The get of w's upsert found the object and the object was gone when the
\* write that followed arrived.
DeletedUnderneath(w) ==
    /\ Upserting(w) /\ Len(calls[w]) >= 2
    /\ calls[w][1].res = "ok"
    /\ calls[w][2].before = NoRV

\* C29: when the object is deleted between the get of an upsert that found it
\* and the write, the write is the update, its NotFound (or the transport's
\* error) is what the upsert returns, no create follows, the handler records
\* the diagnostic and leaves the state, and the object is absent when the
\* invocation ends.
C29_DeleteBetweenGetAndUpdate ==
    \A w \in Workers :
        DeletedUnderneath(w) =>
            /\ Returned(w)
            /\ Len(calls[w]) = 2
            /\ calls[w][2].op = "update"
            /\ calls[w][2].res \in {"NotFound", "TransportError"}
            /\ err[w] = calls[w][2].res
            /\ diag[w]
            /\ calls[w][2].after = NoRV
            /\ tfstate[w] = IF handler[w] = "Create" THEN NoState ELSE was[w]
            /\ nextRV = calls[w][2].clock => store[PlanSlot(w)] = NoObject

C29_Witness ==
    \E w \in Workers :
        /\ DeletedUnderneath(w)
        /\ foreign = 1
        /\ err[w] = "NotFound"
        /\ store[PlanSlot(w)] = NoObject

\* The last entry of a list that has the name n.
LastIndexOf(list, n) == CHOOSE i \in LastOfName(list) : list[i].Name = n

\* The dbsecret document built from a plan with the template list tpl.
DbDocOf(tpl) ==
    BuildDbSecretObj([Name |-> "example", Namespace |-> "default", VaultRole |-> "role",
                      VaultMount |-> "cass000", Template |-> tpl, Renew |-> TRUE,
                      Rollout |-> <<>>])

\* C30: in the document built from a plan, the data map and the template map
\* (of a valssecret and of a dbsecret) have one key per distinct name of the
\* list, and the key of a name carries the values of the last entry of that
\* name.
C30_DuplicateNamesCollapse ==
    codec.pc \in {"built", "decoded"} =>
        LET p    == codec.plan
            data == codec.doc.spec.data
            tpl  == codec.doc.spec.template
            dbt  == DbDocOf(p.Template).spec.template
        IN  /\ DOMAIN data = NamesOf(p.SecretRef)
            /\ Cardinality(DOMAIN data) = Cardinality(NamesOf(p.SecretRef))
            /\ \A n \in NamesOf(p.SecretRef) :
                   LET r == p.SecretRef[LastIndexOf(p.SecretRef, n)]
                   IN  data[n] = [ref |-> r.Ref, encoding |-> r.Encoding]
            /\ DOMAIN tpl = NamesOf(p.Template)
            /\ Cardinality(DOMAIN tpl) = Cardinality(NamesOf(p.Template))
            /\ \A n \in NamesOf(p.Template) :
                   tpl[n] = p.Template[LastIndexOf(p.Template, n)].Value
            /\ dbt = tpl

\* Both lists hold two entries of one name with different values, and each
\* built map has the one key with the second entry's values.
C30_Witness ==
    /\ codec.pc = "built"
    /\ Len(codec.plan.SecretRef) = 2 /\ Len(codec.plan.Template) = 2
    /\ codec.plan.SecretRef[1].Name = codec.plan.SecretRef[2].Name
    /\ codec.plan.SecretRef[1].Ref # codec.plan.SecretRef[2].Ref
    /\ codec.plan.Template[1].Name = codec.plan.Template[2].Name
    /\ codec.plan.Template[1].Value # codec.plan.Template[2].Value
    /\ Cardinality(DOMAIN codec.doc.spec.data) = 1
    /\ Cardinality(DOMAIN codec.doc.spec.template) = 1
    /\ \A n \in DOMAIN codec.doc.spec.template :
           codec.doc.spec.template[n] = codec.plan.Template[2].Value
    /\ \A n \in DOMAIN codec.doc.spec.data :
           codec.doc.spec.data[n].ref = codec.plan.SecretRef[2].Ref

====
